---- MODULE Spec2Model ----
(***************************************************************************)
(* Model of the keystone post-quantum bridge: the ML-KEM hybrid            *)
(* encryption library (kyber_encrypt.cpp), the ML-DSA signature library    *)
(* (dilithium_encrypt.cpp) and their two Node addons                       *)
(* (kyber_node_addon.cpp, dilithium_node_addon.cpp).                       *)
(*                                                                         *)
(* One action is one exposed call, from the wrapper's argument checks to   *)
(* its return or throw.  A call's result carries the value or the error    *)
(* the caller receives and the ordered list of native events (handle       *)
(* creation and release, malloc, free, buffer copies, primitive calls)     *)
(* the call performed.  liboqs is the environment: its lengths are those   *)
(* of FIPS 203 / FIPS 204, its failures are choices of the environment.    *)
(*                                                                         *)
(* Byte buffers that the bridge only measures and forwards (keys) are      *)
(* records [len, kid]: their length and the identity of their content.     *)
(* Buffers the bridge reads or writes byte by byte (plaintext, hybrid      *)
(* ciphertext, signature, message) are sequences of bytes 0..255.          *)
(* A uint32_t is kept as its four little-endian bytes, which is also how   *)
(* memcpy lays the checksum out in the hybrid ciphertext.                  *)
(***************************************************************************)
EXTENDS Integers, Sequences, FiniteSets, TLC

VARIABLES held, last, conc, calc

vars == <<held, last, conc, calc>>

(***************************************************************************)
(* Bounds of the model.                                                    *)
(***************************************************************************)
\* longest plaintext / message the caller passes
MaxLen == 2

(***************************************************************************)
(* Bytes and 32-bit unsigned arithmetic.                                   *)
(***************************************************************************)
Byte == 0..255

RECURSIVE XorBits(_, _, _)
XorBits(a, b, n) ==
    IF n = 0 THEN 0
    ELSE (((a % 2) + (b % 2)) % 2) + (2 * XorBits(a \div 2, b \div 2, n - 1))

\* the ^ of two uint8_t
Xor(a, b) == XorBits(a, b, 8)

\* uint32_t 0
Zero32 == <<0, 0, 0, 0>>

\* a rotation by 5: the bits shifted past bit 31 come back at bit 0
Rotl5(x) ==
    [i \in 1..4 |-> ((x[i] * 32) % 256) + (x[IF i = 1 THEN 4 ELSE i - 1] \div 8)]

\* x << 5 on a uint32_t, bits shifted past bit 31 are lost
Shl5(x) ==
    [i \in 1..4 |-> ((x[i] * 32) % 256) + (IF i = 1 THEN 0 ELSE x[i - 1] \div 8)]

\* carry into byte i of x + y
RECURSIVE Carry32(_, _, _)
Carry32(x, y, i) ==
    IF i = 1 THEN 0 ELSE (x[i - 1] + y[i - 1] + Carry32(x, y, i - 1)) \div 256

\* x + y on uint32_t, wrapping modulo 2^32
Add32(x, y) == [i \in 1..4 |-> (x[i] + y[i] + Carry32(x, y, i)) % 256]

\* a uint8_t promoted to uint32_t
Widen(b) == <<b, 0, 0, 0>>

\* the four bytes of a uint32_t, least significant first
Bytes4(x) == <<x[1], x[2], x[3], x[4]>>

\* one iteration of the checksum loop: ((checksum << 5) + checksum) + byte
ChecksumStep(c, b) == Bytes4(Add32(Add32(Shl5(c), c), Widen(b)))

\* the loop from byte i on, with checksum c so far; each iteration's value
\* is computed once and handed to the next iteration
RECURSIVE ChecksumFrom(_, _, _)
ChecksumFrom(c, data, i) ==
    IF i > Len(data) THEN c
    ELSE CHOOSE r \in {ChecksumFrom(v, data, i + 1) :
                          v \in {ChecksumStep(c, data[i])}} : TRUE

\* the checksum loop of Encrypt and Decrypt over a byte buffer
Checksum(data) == ChecksumFrom(Zero32, data, 1)

(***************************************************************************)
(* Security levels and the liboqs algorithm tables.                        *)
(***************************************************************************)
NULL == "NULL"

select_kyber_alg(security_level) ==
    IF security_level = "512" THEN "ML-KEM-512"
    ELSE IF security_level = "768" THEN "ML-KEM-768"
    ELSE IF security_level = "1024" THEN "ML-KEM-1024"
    ELSE NULL

select_dilithium_alg(security_level) ==
    IF security_level = "2" THEN "ML-DSA-44"
    ELSE IF security_level = "3" THEN "ML-DSA-65"
    ELSE IF security_level = "5" THEN "ML-DSA-87"
    ELSE NULL

\* the OQS_KEM handle's length fields (FIPS 203 parameter sets)
OQS_KEM_new(alg) ==
    CASE alg = "ML-KEM-512" ->
           [length_public_key |-> 800, length_secret_key |-> 1632,
            length_ciphertext |-> 768, length_shared_secret |-> 32]
      [] alg = "ML-KEM-768" ->
           [length_public_key |-> 1184, length_secret_key |-> 2400,
            length_ciphertext |-> 1088, length_shared_secret |-> 32]
      [] alg = "ML-KEM-1024" ->
           [length_public_key |-> 1568, length_secret_key |-> 3168,
            length_ciphertext |-> 1568, length_shared_secret |-> 32]

\* the OQS_SIG handle's length fields (FIPS 204 parameter sets)
OQS_SIG_new(alg) ==
    CASE alg = "ML-DSA-44" ->
           [length_public_key |-> 1312, length_secret_key |-> 2560,
            length_signature |-> 2420]
      [] alg = "ML-DSA-65" ->
           [length_public_key |-> 1952, length_secret_key |-> 4032,
            length_signature |-> 3309]
      [] alg = "ML-DSA-87" ->
           [length_public_key |-> 2592, length_secret_key |-> 4896,
            length_signature |-> 4627]

\* the longest buffer of zero bytes the model cuts from
ZeroBlock == [i \in 1..4700 |-> 0]

\* n zero bytes
Zeros(n) == SubSeq(ZeroBlock, 1, n)

\* a key buffer: its length and the identity of its content
Key(len, kid) == [len |-> len, kid |-> kid]

\* OQS_KEM_keypair / OQS_SIG_keypair: a matching pair carries one identity
OQS_keypair(h, kid) ==
    [pk |-> Key(h.length_public_key, kid), sk |-> Key(h.length_secret_key, kid)]

\* the shared secret bound to key identity kid and encapsulation coin r
SharedSecret(h, kid, r) ==
    [i \in 1..h.length_shared_secret |-> ((17 * kid) + (29 * r) + i) % 256]

\* OQS_KEM_encaps: the KEM ciphertext names the key and the coin
OQS_KEM_encaps(h, pk, r) ==
    [ct |-> <<pk.kid, r>> \o Zeros(h.length_ciphertext - 2),
     ss |-> SharedSecret(h, pk.kid, r)]

\* OQS_KEM_decaps: the sender's secret for an untouched ciphertext under the
\* matching key, an unrelated secret otherwise (implicit rejection)
OQS_KEM_decaps(h, ct, sk) ==
    IF ct[1] = sk.kid /\ SubSeq(ct, 3, Len(ct)) = Zeros(Len(ct) - 2)
    THEN SharedSecret(h, sk.kid, ct[2])
    ELSE [i \in 1..h.length_shared_secret |-> (101 + (7 * sk.kid) + (3 * i)) % 256]

(***************************************************************************)
(* Native memory.  An out-pointer is null, live (malloc'ed, holding val)   *)
(* or freed (the pointer value survives the free: it dangles).             *)
(* An event is <<function, object, succeeded>>.                            *)
(***************************************************************************)
NullPtr == [st |-> "null", val |-> <<>>]
Live(v) == [st |-> "live", val |-> v]
Freed(v) == [st |-> "freed", val |-> v]

\* what the heap held where std::malloc places a new block.  The block is
\* not initialized: until the program writes it, it holds bytes the program
\* does not determine (a fill, the remains of a freed block, allocator
\* pointers, in any mixture).  Such content has an identity here, as a key
\* has, and no byte values: nothing may be concluded from its bytes.
HeapContents == {1, 2, 3}

\* one byte of heap content heap that nothing wrote since malloc: any value
\* of 0..255, written as a number below 0, which is no byte value
UnwrittenByte(heap) == 0 - heap

\* the n bytes of a malloc'ed block that nothing wrote yet
Unwritten(n, heap) == [i \in 1..n |-> UnwrittenByte(heap)]

\* a malloc'ed key buffer of len bytes that nothing wrote yet: it holds
\* heap content heap and no key (identity 0)
UnwrittenKey(len, heap) == [len |-> len, kid |-> 0, heap |-> heap]

\* the std::vector objects of Encrypt, in the order the code constructs them
EncryptVectors ==
    <<"kem_ciphertext", "shared_secret", "nonce", "encrypted_data", "final_ciphertext">>

\* the std::vector objects of Decrypt, in the order the code constructs them
DecryptVectors ==
    <<"kem_ciphertext", "shared_secret", "nonce", "encrypted_data", "plaintext">>

\* std::vector<uint8_t> v(n) throws std::bad_alloc when the allocator fails;
\* a vector of no elements requests no memory
VectorThrows(env, name, n) == env.throwAt = name /\ n > 0

\* std::malloc: a block holding v, what the heap held there, or a null
\* pointer when the allocator fails
Malloc(ok, v) == IF ok THEN Live(v) ELSE NullPtr

Ev(fn, obj, ok) == <<fn, obj, ok>>

(***************************************************************************)
(* kyber_encrypt.cpp                                                       *)
(***************************************************************************)
\* the nonce vector of Encrypt
Nonce == <<1, 2, 3, 4, 5, 6, 7, 8, 9, 10, 11, 12, 13, 14, 15, 16>>

\* sizeof(uint32_t)
SizeofUint32 == 4

\* a nonce length of 12, the AES-GCM IV length the file also declares
ShortNonceLen == 16 - SizeofUint32

\* the nonce length Decrypt assumes
DecryptNonceLen == 16

\* a mask that also folds in the number of the shared-secret-sized block
XorMaskCounter(data, shared_secret, nonce) ==
    [i \in 1..Len(data) |->
        Xor(Xor(Xor(data[i], shared_secret[((i - 1) % Len(shared_secret)) + 1]),
                nonce[((i - 1) % Len(nonce)) + 1]),
            (i - 1) \div Len(shared_secret))]

\* data[i] ^ shared_secret[i % size] ^ nonce[i % size], i counted from 0
XorMask(data, shared_secret, nonce) ==
    [i \in 1..Len(data) |->
        Xor(Xor(data[i], shared_secret[((i - 1) % Len(shared_secret)) + 1]),
            nonce[((i - 1) % Len(nonce)) + 1])]

\* GenerateKeypair of the KEM library.  env: newOk, mallocPk, mallocSk,
\* keypairOk (the library's answers), kid (the key the library draws) and
\* heap (what the new blocks hold until OQS_KEM_keypair writes the keys).
KyberGenerateKeypair(security_level, env) ==
    LET alg == select_kyber_alg(security_level)
        kem == OQS_KEM_new(alg)
        kp == OQS_keypair(kem, env.kid)
        Out(ret, pk, sk, pkl, skl, ev, diag) ==
            [ret |-> ret, public_key |-> pk, secret_key |-> sk,
             public_key_len |-> pkl, secret_key_len |-> skl,
             ev |-> ev, diag |-> diag]
    IN  IF alg = NULL
        THEN Out(-1, NullPtr, NullPtr, 0, 0, <<>>,
                 "GenerateKeypair: Invalid security level")
        ELSE IF ~env.newOk
        THEN Out(-1, NullPtr, NullPtr, 0, 0, <<Ev("OQS_KEM_new", "kem", FALSE)>>,
                 "GenerateKeypair: Failed to initialize KEM")
        ELSE
        LET pk == Malloc(env.mallocPk, UnwrittenKey(kem.length_public_key, env.heap))
            sk == Malloc(env.mallocSk, UnwrittenKey(kem.length_secret_key, env.heap))
            ev1 == <<Ev("OQS_KEM_new", "kem", TRUE),
                     Ev("malloc", "public_key", env.mallocPk),
                     Ev("malloc", "secret_key", env.mallocSk)>>
        IN  IF pk.st = "null" \/ sk.st = "null"
            THEN Out(-1, pk, sk, kem.length_public_key, kem.length_secret_key,
                     ev1 \o <<Ev("OQS_KEM_free", "kem", TRUE)>>,
                     "GenerateKeypair: Memory allocation failed.")
            ELSE IF ~env.keypairOk
            THEN Out(-1, Freed(kp.pk), Freed(kp.sk),
                     kem.length_public_key, kem.length_secret_key,
                     ev1 \o <<Ev("OQS_KEM_keypair", "kem", FALSE),
                              Ev("free", "public_key", TRUE),
                              Ev("free", "secret_key", TRUE),
                              Ev("OQS_KEM_free", "kem", TRUE)>>,
                     "GenerateKeypair: Keypair generation failed.")
            ELSE Out(0, Live(kp.pk), Live(kp.sk),
                     kem.length_public_key, kem.length_secret_key,
                     ev1 \o <<Ev("OQS_KEM_keypair", "kem", TRUE),
                              Ev("OQS_KEM_free", "kem", TRUE)>>,
                     "")

\* the handle pointer left as it was after OQS_KEM_free(kem)
KemLeftSet(kem) == kem

\* the handle pointer after OQS_KEM_free(kem); kem = nullptr;
KemAfterFree(kem) == NULL

\* the catch blocks of Encrypt and Decrypt: if (kem) OQS_KEM_free(kem);
CatchFree(kem) ==
    IF kem # NULL THEN <<Ev("OQS_KEM_free", "kem", TRUE)>> ELSE <<>>

\* a final ciphertext with the checksum copied before the nonce
AssembleChecksumFirst(kem_ciphertext, nonce, checksum, encrypted_data) ==
    kem_ciphertext \o checksum \o nonce \o encrypted_data

\* the memcpy sequence that builds final_ciphertext
Assemble(kem_ciphertext, nonce, checksum, encrypted_data) ==
    kem_ciphertext \o nonce \o checksum \o encrypted_data

\* Encrypt.  env: newOk, encapsOk, mallocOut, r (the encapsulation coin) and
\* throwAt (the vector of EncryptVectors whose allocation throws, or "none").
Encrypt(security_level, recipient_public_key, plaintext, env) ==
    LET alg == select_kyber_alg(security_level)
        kem == OQS_KEM_new(alg)
        Out(ret, out, len, ev, diag) ==
            [ret |-> ret, out_ciphertext |-> out, out_ciphertext_len |-> len,
             ev |-> ev, diag |-> diag]
    IN  \* the key and data pointers are Buffer::Data() of non-empty buffers
        IF security_level = NULL
        THEN Out(-1, NullPtr, 0, <<>>, "Encrypt: Null input parameters")
        ELSE IF Len(plaintext) = 0
        THEN Out(-1, NullPtr, 0, <<>>, "Encrypt: Empty plaintext")
        ELSE IF alg = NULL
        THEN Out(-1, NullPtr, 0, <<>>, "Encrypt: Invalid security level")
        ELSE IF ~env.newOk
        THEN Out(-1, NullPtr, 0, <<Ev("OQS_KEM_new", "kem", FALSE)>>,
                 "Encrypt: Failed to initialize KEM")
        ELSE IF recipient_public_key.len # kem.length_public_key
        THEN Out(-1, NullPtr, 0,
                 <<Ev("OQS_KEM_new", "kem", TRUE), Ev("OQS_KEM_free", "kem", TRUE)>>,
                 "Encrypt: Invalid recipient public key length.")
        ELSE IF \/ VectorThrows(env, "kem_ciphertext", kem.length_ciphertext)
                \/ VectorThrows(env, "shared_secret", kem.length_shared_secret)
        THEN Out(-1, NullPtr, 0, <<Ev("OQS_KEM_new", "kem", TRUE)>> \o CatchFree("kem"),
                 "DEBUG-DIAG: Exception caught")
        ELSE IF ~env.encapsOk
        THEN Out(-1, NullPtr, 0,
                 <<Ev("OQS_KEM_new", "kem", TRUE), Ev("OQS_KEM_encaps", "kem", FALSE),
                   Ev("OQS_KEM_free", "kem", TRUE)>>,
                 "Encrypt: KEM encapsulation failed")
        ELSE IF \/ VectorThrows(env, "nonce", Len(Nonce))
                \/ VectorThrows(env, "encrypted_data", Len(plaintext))
                \/ VectorThrows(env, "final_ciphertext",
                                kem.length_ciphertext + Len(Nonce) + SizeofUint32
                                    + Len(plaintext))
        THEN Out(-1, NullPtr, 0,
                 <<Ev("OQS_KEM_new", "kem", TRUE), Ev("OQS_KEM_encaps", "kem", TRUE),
                   Ev("OQS_KEM_free", "kem", TRUE)>> \o CatchFree(KemAfterFree("kem")),
                 "DEBUG-DIAG: Exception caught")
        ELSE
        LET enc == OQS_KEM_encaps(kem, recipient_public_key, env.r)
            kem_ciphertext == enc.ct
            shared_secret == enc.ss
            nonce == Nonce
            encrypted_data == XorMask(plaintext, shared_secret, nonce)
            checksum == Checksum(plaintext)
            final_ciphertext == Assemble(kem_ciphertext, nonce, checksum, encrypted_data)
            ev1 == <<Ev("OQS_KEM_new", "kem", TRUE), Ev("OQS_KEM_encaps", "kem", TRUE),
                     Ev("OQS_KEM_free", "kem", TRUE),
                     Ev("malloc", "out_ciphertext", env.mallocOut)>>
        IN  IF ~env.mallocOut
            THEN Out(-1, NullPtr, 0, ev1, "Encrypt: Memory allocation for output failed.")
            ELSE Out(0, Live(final_ciphertext), Len(final_ciphertext), ev1, "")

\* an integrity test that lets every checksum pass
ChecksumNeverMismatch(calculated_checksum, received_checksum) == FALSE

\* an integrity test that compares the low bytes only
ChecksumMismatchLowByte(calculated_checksum, received_checksum) ==
    calculated_checksum[1] # received_checksum[1]

\* the integrity test of Decrypt: calculated_checksum != received_checksum
ChecksumMismatch(calculated_checksum, received_checksum) ==
    calculated_checksum # received_checksum

\* a shortest length that covers the KEM ciphertext only
MinLenKemOnly(kem) == kem.length_ciphertext

\* a shortest length that leaves the checksum field out
MinLenNoChecksum(kem) == kem.length_ciphertext + DecryptNonceLen

\* min_len of Decrypt: KEM ciphertext, nonce and checksum
MinLen(kem) == kem.length_ciphertext + DecryptNonceLen + SizeofUint32

\* an output pointer that already holds the unmasked bytes
OutFilledEarly(plaintext) == Live(plaintext)

\* *out_plaintext on a return that precedes the malloc of the output: the
\* nullptr Decrypt stored on entry
OutBeforeMalloc(plaintext) == NullPtr

\* std::memcpy(dst, src + offset, n): the n bytes of src from offset on.  No
\* run of Decrypt reads past the end of src or passes a count that wrapped
\* (C25); a byte from past the end is shown as 0 and such a count copies
\* nothing.
Memcpy(src, offset, n) ==
    IF n <= 0 THEN <<>>
    ELSE IF offset + n <= Len(src)
    THEN SubSeq(src, offset + 1, offset + n)
    ELSE [i \in 1..n |-> IF offset + i <= Len(src) THEN src[offset + i] ELSE 0]

\* size_t encrypted_len = ciphertext_len - offset; a negative value stands
\* for the size_t that wrapped around
EncryptedLen(ciphertext_len, offset) == ciphertext_len - offset

\* Decrypt.  env: newOk, decapsOk, mallocOut and throwAt (the vector of
\* DecryptVectors whose allocation throws, or "none").  reads lists the
\* memcpy's out of the ciphertext done before the return, as <<offset, count>>.
Decrypt(security_level, recipient_secret_key, ciphertext, env) ==
    LET alg == select_kyber_alg(security_level)
        kem == OQS_KEM_new(alg)
        ciphertext_len == Len(ciphertext)
        Read(ret, out, len, ev, diag, reads) ==
            [ret |-> ret, out_plaintext |-> out, out_plaintext_len |-> len,
             ev |-> ev, diag |-> diag, reads |-> reads]
        Out(ret, out, len, ev, diag) == Read(ret, out, len, ev, diag, <<>>)
        kem_read == <<<<0, kem.length_ciphertext>>>>
        new == Ev("OQS_KEM_new", "kem", TRUE)
        free == Ev("OQS_KEM_free", "kem", TRUE)
        Caught(ev, reads) ==
            Read(-1, NullPtr, 0, ev, "DEBUG-DIAG: Exception caught in decrypt", reads)
    IN  \* the key and data pointers are Buffer::Data() of non-empty buffers
        IF security_level = NULL
        THEN Out(-1, NullPtr, 0, <<>>, "Decrypt: Null input parameters")
        ELSE IF alg = NULL
        THEN Out(-1, NullPtr, 0, <<>>, "Decrypt: Invalid security level")
        ELSE IF ~env.newOk
        THEN Out(-1, NullPtr, 0, <<Ev("OQS_KEM_new", "kem", FALSE)>>,
                 "Decrypt: Failed to initialize KEM")
        ELSE IF recipient_secret_key.len # kem.length_secret_key
        THEN Out(-1, NullPtr, 0, <<new, free>>,
                 "Decrypt: Invalid recipient secret key length.")
        ELSE IF ciphertext_len < MinLen(kem)
        THEN Out(-1, NullPtr, 0, <<new, free>>, "Decrypt: Ciphertext too short.")
        ELSE IF VectorThrows(env, "kem_ciphertext", kem.length_ciphertext)
        THEN Caught(<<new>> \o CatchFree("kem"), <<>>)
        ELSE IF VectorThrows(env, "shared_secret", kem.length_shared_secret)
        THEN Caught(<<new>> \o CatchFree("kem"), kem_read)
        ELSE IF ~env.decapsOk
        THEN Read(-1, NullPtr, 0, <<new, Ev("OQS_KEM_decaps", "kem", FALSE), free>>,
                  "Decrypt: KEM decapsulation failed", kem_read)
        ELSE
        LET kem_ciphertext == Memcpy(ciphertext, 0, kem.length_ciphertext)
            shared_secret == OQS_KEM_decaps(kem, kem_ciphertext, recipient_secret_key)
            offset1 == Len(kem_ciphertext)
            nonce == Memcpy(ciphertext, offset1, DecryptNonceLen)
            offset2 == offset1 + DecryptNonceLen
            received_checksum == Memcpy(ciphertext, offset2, SizeofUint32)
            offset3 == offset2 + SizeofUint32
            encrypted_len == EncryptedLen(ciphertext_len, offset3)
            encrypted_data == Memcpy(ciphertext, offset3, encrypted_len)
            field_reads == kem_read \o <<<<offset1, DecryptNonceLen>>,
                                         <<offset2, SizeofUint32>>>>
            reads == field_reads \o <<<<offset3, encrypted_len>>>>
            plaintext == XorMask(encrypted_data, shared_secret, nonce)
            calculated_checksum == Checksum(plaintext)
            ev1 == <<new, Ev("OQS_KEM_decaps", "kem", TRUE), free>>
            released == ev1 \o CatchFree(KemAfterFree("kem"))
        IN  IF VectorThrows(env, "nonce", DecryptNonceLen)
            THEN Caught(released, kem_read)
            ELSE IF VectorThrows(env, "encrypted_data", encrypted_len)
            THEN Caught(released, field_reads)
            ELSE IF VectorThrows(env, "plaintext", encrypted_len)
            THEN Caught(released, reads)
            ELSE IF ChecksumMismatch(calculated_checksum, received_checksum)
            THEN Read(-1, OutBeforeMalloc(plaintext), 0, ev1,
                      "Decrypt: Checksum verification failed", reads)
            ELSE IF ~env.mallocOut
            THEN Read(-1, NullPtr, 0, ev1 \o <<Ev("malloc", "out_plaintext", FALSE)>>,
                      "Decrypt: Memory allocation for output failed.", reads)
            ELSE Read(0, Live(plaintext), Len(plaintext),
                      ev1 \o <<Ev("malloc", "out_plaintext", TRUE)>>, "", reads)

(***************************************************************************)
(* The host runtime's values and a wrapper's outcome.                      *)
(* A call's arguments (info) are a sequence of values [t, len, s, k, b]:    *)
(* the type, Buffer::Length() and the content (s of a string, k of a key    *)
(* buffer, b of a byte buffer).  An outcome is what the caller  *)
(* receives (a value, or a thrown error with its type and message), the    *)
(* native return code, the native diagnostic and the call's events.        *)
(***************************************************************************)
StrArg(s) == [t |-> "string", len |-> 0, s |-> s, k |-> [len |-> 0, kid |-> 0], b |-> <<>>]
KeyArg(k) == [t |-> "buffer", len |-> k.len, s |-> "", k |-> k, b |-> <<>>]
BytesArg(b) == [t |-> "buffer", len |-> Len(b), s |-> "", k |-> [len |-> 0, kid |-> 0], b |-> b]
NumArg == [t |-> "number", len |-> 0, s |-> "", k |-> [len |-> 0, kid |-> 0], b |-> <<>>]

IsString(a) == a.t = "string"
IsBuffer(a) == a.t = "buffer"

\* a throw of the wrapper's own checks, before the native call
Reject(etype, msg) ==
    [kind |-> "throw", etype |-> etype, msg |-> msg, value |-> <<>>,
     called |-> FALSE, ret |-> 0, diag |-> "", ev |-> <<>>]

\* a throw after the native call returned ret
Throw(etype, msg, ret, diag, ev) ==
    [kind |-> "throw", etype |-> etype, msg |-> msg, value |-> <<>>,
     called |-> TRUE, ret |-> ret, diag |-> diag, ev |-> ev]

Return(value, ret, ev) ==
    [kind |-> "return", etype |-> "", msg |-> "", value |-> value,
     called |-> TRUE, ret |-> ret, diag |-> "", ev |-> ev]

\* before the first call
NoOutcome ==
    [kind |-> "none", etype |-> "", msg |-> "", value |-> <<>>,
     called |-> FALSE, ret |-> 0, diag |-> "", ev |-> <<>>]

\* a copy of a key buffer that stops one byte before the end
CopyKeyShort(p, len) == Key(len - 1, p.val.kid)

\* Napi::Buffer<uint8_t>::Copy(env, key, len): len bytes of a key buffer
CopyKey(p, len) == Key(len, p.val.kid)

\* a copy of the whole allocated buffer, whatever length was reported
CopyWholeBuffer(p, len) == p.val

\* a copy that stops one byte before the end
CopyBytesShort(p, len) == SubSeq(p.val, 1, len - 1)

\* Napi::Buffer<uint8_t>::Copy(env, data, len): the first len bytes
CopyBytes(p, len) == SubSeq(p.val, 1, len)

(***************************************************************************)
(* kyber_node_addon.cpp                                                    *)
(***************************************************************************)
\* a level test that accepts every token that is not empty
KyberLevelNonEmpty(securityLevel) == securityLevel # ""

KyberLevelOk(securityLevel) ==
    ~(securityLevel # "512" /\ securityLevel # "768" /\ securityLevel # "1024")

\* the public key sizes with those of "768" and "1024" exchanged
KyberExpectedPubKeySizeSwapped(securityLevel) ==
    IF securityLevel = "512" THEN 800
    ELSE IF securityLevel = "768" THEN 1568
    ELSE IF securityLevel = "1024" THEN 1184
    ELSE 0

KyberExpectedPubKeySize(securityLevel) ==
    IF securityLevel = "512" THEN 800
    ELSE IF securityLevel = "768" THEN 1184
    ELSE IF securityLevel = "1024" THEN 1568
    ELSE 0

KyberExpectedSecKeySize(securityLevel) ==
    IF securityLevel = "512" THEN 1632
    ELSE IF securityLevel = "768" THEN 2400
    ELSE IF securityLevel = "1024" THEN 3168
    ELSE 0

\* a test of GenerateKeypair's result that looks at the pointers only
KeypairFailedWhenNull(r) ==
    r.public_key.st = "null" \/ r.secret_key.st = "null"

\* the wrapper's test of GenerateKeypair's result
KyberKeypairFailed(r) ==
    r.ret # 0 \/ r.public_key.st = "null" \/ r.secret_key.st = "null"

KyberGenerateKeypairWrapped(info, env) ==
    IF Len(info) < 1 \/ ~IsString(info[1])
    THEN Reject("TypeError", "Expected security_level string")
    ELSE
    LET securityLevel == info[1].s IN
    IF ~KyberLevelOk(securityLevel)
    THEN Reject("TypeError", "Security level must be one of: 512, 768, 1024")
    ELSE
    LET r == KyberGenerateKeypair(securityLevel, env) IN
    IF KyberKeypairFailed(r)
    THEN Throw("Error", "GenerateKeypair failed with code: " \o ToString(r.ret),
               r.ret, r.diag, r.ev)
    ELSE Return([publicKey |-> CopyKey(r.public_key, r.public_key_len),
                 secretKey |-> CopyKey(r.secret_key, r.secret_key_len)],
                r.ret,
                r.ev \o <<Ev("copy", "public_key", r.public_key.st = "live"),
                          Ev("copy", "secret_key", r.secret_key.st = "live"),
                          Ev("free", "public_key", TRUE),
                          Ev("free", "secret_key", TRUE)>>)

EncryptWrapped(info, env) ==
    IF Len(info) < 3
    THEN Reject("TypeError", "Expected (securityLevel, publicKey, plaintext) arguments")
    ELSE IF ~IsString(info[1])
    THEN Reject("TypeError", "securityLevel must be a string")
    ELSE IF ~IsBuffer(info[2]) \/ ~IsBuffer(info[3])
    THEN Reject("TypeError", "publicKey and plaintext must be Buffers")
    ELSE
    LET securityLevel == info[1].s
        jsPubKey == info[2]
        jsPlaintext == info[3]
        expectedPubKeySize == KyberExpectedPubKeySize(securityLevel)
    IN
    IF ~KyberLevelOk(securityLevel)
    THEN Reject("TypeError", "Security level must be one of: 512, 768, 1024")
    ELSE IF jsPubKey.len = 0
    THEN Reject("Error", "Public key buffer is empty")
    ELSE IF jsPlaintext.len = 0
    THEN Reject("Error", "Plaintext buffer is empty")
    ELSE IF jsPubKey.len # expectedPubKeySize
    THEN Reject("Error",
               "Invalid public key size for security level " \o securityLevel
                 \o ". Expected: " \o ToString(expectedPubKeySize)
                 \o ", Actual: " \o ToString(jsPubKey.len))
    ELSE
    LET r == Encrypt(securityLevel, jsPubKey.k, jsPlaintext.b, env) IN
    IF r.ret # 0 \/ r.out_ciphertext.st = "null" \/ r.out_ciphertext_len = 0
    THEN Throw("Error", "Encrypt failed with code: " \o ToString(r.ret),
               r.ret, r.diag, r.ev)
    ELSE Return(CopyBytes(r.out_ciphertext, r.out_ciphertext_len), r.ret,
                r.ev \o <<Ev("copy", "out_ciphertext", r.out_ciphertext.st = "live"),
                          Ev("free", "out_ciphertext", TRUE)>>)

DecryptWrapped(info, env) ==
    IF Len(info) < 3
    THEN Reject("TypeError", "Expected (securityLevel, secretKey, ciphertext)")
    ELSE IF ~IsString(info[1])
    THEN Reject("TypeError", "securityLevel must be a string")
    ELSE IF ~IsBuffer(info[2]) \/ ~IsBuffer(info[3])
    THEN Reject("TypeError", "secretKey and ciphertext must be Buffers")
    ELSE
    LET securityLevel == info[1].s
        jsSecKey == info[2]
        jsCipher == info[3]
        expectedSecKeySize == KyberExpectedSecKeySize(securityLevel)
    IN
    IF ~KyberLevelOk(securityLevel)
    THEN Reject("TypeError", "Security level must be one of: 512, 768, 1024")
    ELSE IF jsSecKey.len = 0
    THEN Reject("Error", "Secret key buffer is empty")
    ELSE IF jsCipher.len = 0
    THEN Reject("Error", "Ciphertext buffer is empty")
    ELSE IF jsSecKey.len # expectedSecKeySize
    THEN Reject("Error",
               "Invalid secret key size for security level " \o securityLevel
                 \o ". Expected: " \o ToString(expectedSecKeySize)
                 \o ", Actual: " \o ToString(jsSecKey.len))
    ELSE
    LET r == Decrypt(securityLevel, jsSecKey.k, jsCipher.b, env) IN
    IF r.ret # 0 \/ r.out_plaintext.st = "null"
    THEN Throw("Error", "Decrypt failed with code: " \o ToString(r.ret),
               r.ret, r.diag, r.ev)
    ELSE Return(CopyBytes(r.out_plaintext, r.out_plaintext_len), r.ret,
                r.ev \o <<Ev("copy", "out_plaintext", r.out_plaintext.st = "live"),
                          Ev("free", "out_plaintext", TRUE)>>)

(***************************************************************************)
(* liboqs signatures.  A signature names the signing key and carries the   *)
(* message it was made for, so that it verifies for that pair only.        *)
(***************************************************************************)
\* OQS_SIG_sign: the signature bytes, length_signature of them
OQS_SIG_sign(h, message, sk) ==
    <<sk.kid, Len(message)>> \o message
        \o Zeros(h.length_signature - 2 - Len(message))

\* what OQS_SIG_sign stores in the caller's buffer when it writes short
\* bytes fewer than length_signature; *signature_len is its length
SignWritten(h, message, sk, short) ==
    SubSeq(OQS_SIG_sign(h, message, sk), 1, h.length_signature - short)

\* OQS_SIG_verify: accepts exactly what OQS_SIG_sign makes for the pair
OQS_SIG_verify(h, message, signature, pk) ==
    /\ Len(signature) = h.length_signature
    /\ signature = OQS_SIG_sign(h, message, pk)

(***************************************************************************)
(* dilithium_encrypt.cpp                                                   *)
(***************************************************************************)
\* GenerateKeypair of the signature library.  env as for the KEM library.
DilithiumGenerateKeypair(security_level, env) ==
    LET alg == select_dilithium_alg(security_level)
        sig == OQS_SIG_new(alg)
        kp == OQS_keypair(sig, env.kid)
        Out(ret, pk, sk, pkl, skl, ev, diag) ==
            [ret |-> ret, public_key |-> pk, secret_key |-> sk,
             public_key_len |-> pkl, secret_key_len |-> skl,
             ev |-> ev, diag |-> diag]
    IN  IF alg = NULL
        THEN Out(-1, NullPtr, NullPtr, 0, 0, <<>>,
                 "GenerateKeypair: Invalid security level")
        ELSE IF ~env.newOk
        THEN Out(-1, NullPtr, NullPtr, 0, 0, <<Ev("OQS_SIG_new", "sig", FALSE)>>,
                 "GenerateKeypair: Failed to initialize signature")
        ELSE
        LET pk == Malloc(env.mallocPk, UnwrittenKey(sig.length_public_key, env.heap))
            sk == Malloc(env.mallocSk, UnwrittenKey(sig.length_secret_key, env.heap))
            ev1 == <<Ev("OQS_SIG_new", "sig", TRUE),
                     Ev("malloc", "public_key", env.mallocPk),
                     Ev("malloc", "secret_key", env.mallocSk)>>
        IN  IF pk.st = "null" \/ sk.st = "null"
            THEN Out(-1, pk, sk, sig.length_public_key, sig.length_secret_key,
                     ev1 \o <<Ev("OQS_SIG_free", "sig", TRUE)>>,
                     "GenerateKeypair: Memory allocation failed.")
            ELSE IF ~env.keypairOk
            THEN Out(-1, Freed(kp.pk), Freed(kp.sk),
                     sig.length_public_key, sig.length_secret_key,
                     ev1 \o <<Ev("OQS_SIG_keypair", "sig", FALSE),
                              Ev("free", "public_key", TRUE),
                              Ev("free", "secret_key", TRUE),
                              Ev("OQS_SIG_free", "sig", TRUE)>>,
                     "GenerateKeypair: Keypair generation failed.")
            ELSE Out(0, Live(kp.pk), Live(kp.sk),
                     sig.length_public_key, sig.length_secret_key,
                     ev1 \o <<Ev("OQS_SIG_keypair", "sig", TRUE),
                              Ev("OQS_SIG_free", "sig", TRUE)>>,
                     "")

\* a signing step that calls the primitive again after it failed
SignRetried(ok) ==
    IF ok THEN <<Ev("OQS_SIG_sign", "sig", TRUE)>>
    ELSE <<Ev("OQS_SIG_sign", "sig", FALSE), Ev("OQS_SIG_sign", "sig", FALSE)>>

\* the signing step of Sign: one call of OQS_SIG_sign, whatever it answers
SignAttempt(ok) == <<Ev("OQS_SIG_sign", "sig", ok)>>

\* Sign.  env: newOk, mallocOut, signOk, short (the bytes fewer than
\* length_signature that OQS_SIG_sign writes) and heap (what the bytes of the
\* block past the written ones hold).
Sign(security_level, secret_key, message, env) ==
    LET alg == select_dilithium_alg(security_level)
        sig == OQS_SIG_new(alg)
        Out(ret, p, len, ev, diag) ==
            [ret |-> ret, signature |-> p, signature_len |-> len,
             ev |-> ev, diag |-> diag]
        new == Ev("OQS_SIG_new", "sig", TRUE)
        free == Ev("OQS_SIG_free", "sig", TRUE)
    IN  \* the key and data pointers are Buffer::Data() of non-empty buffers
        IF security_level = NULL
        THEN Out(-1, NullPtr, 0, <<>>, "Sign: Null input parameters")
        ELSE IF Len(message) = 0
        THEN Out(-1, NullPtr, 0, <<>>, "Sign: Empty message")
        ELSE IF alg = NULL
        THEN Out(-1, NullPtr, 0, <<>>, "Sign: Invalid security level")
        ELSE IF ~env.newOk
        THEN Out(-1, NullPtr, 0, <<Ev("OQS_SIG_new", "sig", FALSE)>>,
                 "Sign: Failed to initialize signature")
        ELSE IF secret_key.len # sig.length_secret_key
        THEN Out(-1, NullPtr, 0, <<new, free>>, "Sign: Invalid secret key length.")
        ELSE IF ~env.mallocOut
        THEN Out(-1, NullPtr, 0, <<new, Ev("malloc", "signature", FALSE), free>>,
                 "Sign: Memory allocation for signature failed.")
        ELSE IF ~env.signOk
        THEN Out(-1, NullPtr, 0,
                 <<new, Ev("malloc", "signature", TRUE)>> \o SignAttempt(FALSE)
                     \o <<Ev("free", "signature", TRUE), free>>,
                 "Sign: Signature generation failed.")
        ELSE
        LET written == SignWritten(sig, message, secret_key, env.short) IN
            Out(0, Live(written \o Unwritten(env.short, env.heap)), Len(written),
                <<new, Ev("malloc", "signature", TRUE)>> \o SignAttempt(TRUE)
                    \o <<free>>, "")

\* a return code that reports a signature the primitive does not accept as
\* an error
VerifyCodeAsError(result) == IF ~result THEN -1 ELSE 0

\* the return code of Verify after the primitive answered: 1 for a
\* signature it does not accept, 0 for one it accepts
VerifyCode(result) == IF ~result THEN 1 ELSE 0

\* Verify.  env: newOk.
Verify(security_level, public_key, message, signature, env) ==
    LET alg == select_dilithium_alg(security_level)
        sig == OQS_SIG_new(alg)
        Out(ret, ev, diag) == [ret |-> ret, ev |-> ev, diag |-> diag]
        new == Ev("OQS_SIG_new", "sig", TRUE)
        free == Ev("OQS_SIG_free", "sig", TRUE)
    IN  \* the key and data pointers are Buffer::Data() of non-empty buffers
        IF security_level = NULL
        THEN Out(-1, <<>>, "Verify: Null input parameters")
        ELSE IF Len(message) = 0
        THEN Out(-1, <<>>, "Verify: Empty message")
        ELSE IF Len(signature) = 0
        THEN Out(-1, <<>>, "Verify: Empty signature")
        ELSE IF alg = NULL
        THEN Out(-1, <<>>, "Verify: Invalid security level")
        ELSE IF ~env.newOk
        THEN Out(-1, <<Ev("OQS_SIG_new", "sig", FALSE)>>,
                 "Verify: Failed to initialize signature")
        ELSE IF public_key.len # sig.length_public_key
        THEN Out(-1, <<new, free>>, "Verify: Invalid public key length.")
        ELSE
        LET result == OQS_SIG_verify(sig, message, signature, public_key) IN
            Out(VerifyCode(result), <<new, Ev("OQS_SIG_verify", "sig", result), free>>,
                IF result THEN "" ELSE "Signature verification failed!")

(***************************************************************************)
(* dilithium_node_addon.cpp                                                *)
(***************************************************************************)
DilithiumLevelOk(securityLevel) ==
    ~(securityLevel # "2" /\ securityLevel # "3" /\ securityLevel # "5")

DilithiumExpectedSecKeySize(securityLevel) ==
    IF securityLevel = "2" THEN 2560
    ELSE IF securityLevel = "3" THEN 4032
    ELSE IF securityLevel = "5" THEN 4896
    ELSE 0

DilithiumExpectedPubKeySize(securityLevel) ==
    IF securityLevel = "2" THEN 1312
    ELSE IF securityLevel = "3" THEN 1952
    ELSE IF securityLevel = "5" THEN 2592
    ELSE 0

DilithiumGenerateKeypairWrapped(info, env) ==
    IF Len(info) < 1 \/ ~IsString(info[1])
    THEN Reject("TypeError", "Expected security_level string")
    ELSE
    LET securityLevel == info[1].s IN
    IF ~DilithiumLevelOk(securityLevel)
    THEN Reject("TypeError", "Security level must be one of: 2, 3, 5")
    ELSE
    LET r == DilithiumGenerateKeypair(securityLevel, env) IN
    IF r.ret # 0 \/ r.public_key.st = "null" \/ r.secret_key.st = "null"
    THEN Throw("Error", "GenerateKeypair failed with code: " \o ToString(r.ret),
               r.ret, r.diag, r.ev)
    ELSE Return([publicKey |-> CopyKey(r.public_key, r.public_key_len),
                 secretKey |-> CopyKey(r.secret_key, r.secret_key_len)],
                r.ret,
                r.ev \o <<Ev("copy", "public_key", r.public_key.st = "live"),
                          Ev("copy", "secret_key", r.secret_key.st = "live"),
                          Ev("free", "public_key", TRUE),
                          Ev("free", "secret_key", TRUE)>>)

SignWrapped(info, env) ==
    IF Len(info) < 3
    THEN Reject("TypeError", "Expected (securityLevel, secretKey, message) arguments")
    ELSE IF ~IsString(info[1])
    THEN Reject("TypeError", "securityLevel must be a string")
    ELSE IF ~IsBuffer(info[2]) \/ ~IsBuffer(info[3])
    THEN Reject("TypeError", "secretKey and message must be Buffers")
    ELSE
    LET securityLevel == info[1].s
        jsSecKey == info[2]
        jsMessage == info[3]
        expectedSecKeySize == DilithiumExpectedSecKeySize(securityLevel)
    IN
    IF ~DilithiumLevelOk(securityLevel)
    THEN Reject("TypeError", "Security level must be one of: 2, 3, 5")
    ELSE IF jsSecKey.len = 0
    THEN Reject("Error", "Secret key buffer is empty")
    ELSE IF jsMessage.len = 0
    THEN Reject("Error", "Message buffer is empty")
    ELSE IF jsSecKey.len # expectedSecKeySize
    THEN Reject("Error",
               "Invalid secret key size for security level " \o securityLevel
                 \o ". Expected: " \o ToString(expectedSecKeySize)
                 \o ", Actual: " \o ToString(jsSecKey.len))
    ELSE
    LET r == Sign(securityLevel, jsSecKey.k, jsMessage.b, env) IN
    IF r.ret # 0 \/ r.signature.st = "null" \/ r.signature_len = 0
    THEN Throw("Error", "Sign failed with code: " \o ToString(r.ret),
               r.ret, r.diag, r.ev)
    ELSE Return(CopyBytes(r.signature, r.signature_len), r.ret,
                r.ev \o <<Ev("copy", "signature", r.signature.st = "live"),
                          Ev("free", "signature", TRUE)>>)

VerifyWrapped(info, env) ==
    IF Len(info) < 4
    THEN Reject("TypeError", "Expected (securityLevel, publicKey, message, signature)")
    ELSE IF ~IsString(info[1])
    THEN Reject("TypeError", "securityLevel must be a string")
    ELSE IF ~IsBuffer(info[2]) \/ ~IsBuffer(info[3]) \/ ~IsBuffer(info[4])
    THEN Reject("TypeError", "publicKey, message, and signature must be Buffers")
    ELSE
    LET securityLevel == info[1].s
        jsPubKey == info[2]
        jsMessage == info[3]
        jsSignature == info[4]
        expectedPubKeySize == DilithiumExpectedPubKeySize(securityLevel)
    IN
    IF ~DilithiumLevelOk(securityLevel)
    THEN Reject("TypeError", "Security level must be one of: 2, 3, 5")
    ELSE IF jsPubKey.len = 0
    THEN Reject("Error", "Public key buffer is empty")
    ELSE IF jsMessage.len = 0
    THEN Reject("Error", "Message buffer is empty")
    ELSE IF jsSignature.len = 0
    THEN Reject("Error", "Signature buffer is empty")
    ELSE IF jsPubKey.len # expectedPubKeySize
    THEN Reject("Error",
               "Invalid public key size for security level " \o securityLevel
                 \o ". Expected: " \o ToString(expectedPubKeySize)
                 \o ", Actual: " \o ToString(jsPubKey.len))
    ELSE
    LET r == Verify(securityLevel, jsPubKey.k, jsMessage.b, jsSignature.b, env) IN
    IF r.ret < 0
    THEN Throw("Error", "Verify failed with code: " \o ToString(r.ret),
               r.ret, r.diag, r.ev)
    ELSE Return(r.ret = 0, r.ret, r.ev)

(***************************************************************************)
(* The caller.  held is what the caller keeps from its successful calls:   *)
(* the key pair of its last generateKeypair, the hybrid ciphertext of its  *)
(* last encrypt with the plaintext it encrypted, the signature of its last *)
(* sign with the message it signed, and how many ciphertexts it received   *)
(* with the nonces it found in them and the coins the library drew for     *)
(* them.  last is the call just made: the operation, its arguments, the    *)
(* environment's answers and the outcome.                                  *)
(***************************************************************************)
\* key identities the library's keypair generation may draw
KeyIds == {1, 2}

\* byte patterns the caller cuts its plaintexts and messages from
Patterns ==
    {<<0, 255, 65, 128, 1, 254, 90, 7>>, <<255, 0, 128, 65, 254, 1, 7, 90>>}

\* the caller's plaintexts and messages of at most n bytes, the empty one
\* included
BytesUpTo(n) == {SubSeq(p, 1, k) : p \in Patterns, k \in 0..n}

\* level tokens a caller may pass
Tokens == {"512", "768", "1024", "2", "3", "5", "", "7", "0512", "768 "}

NoKey == Key(0, 0)

EnvOk ==
    [newOk |-> TRUE, mallocPk |-> TRUE, mallocSk |-> TRUE, keypairOk |-> TRUE,
     kid |-> 1, encapsOk |-> TRUE, decapsOk |-> TRUE, signOk |-> TRUE,
     r |-> 1, mallocOut |-> TRUE, throwAt |-> "none", short |-> 0, heap |-> 1]

NoHeld ==
    [fam |-> "none", level |-> "", pk |-> NoKey, sk |-> NoKey,
     ct |-> <<>>, pt |-> <<>>, encrypts |-> 0, nonces |-> {}, coins |-> {},
     sig |-> <<>>, msg |-> <<>>]

Call(op, info, env, out) == [op |-> op, info |-> info, env |-> env, out |-> out]

\* the two calls that may be in progress at once
Procs == {1, 2}

\* the automatic variables of a native call before it assigns them
Frame0 ==
    [kem |-> NULL, kem_ciphertext |-> <<>>, shared_secret |-> <<>>,
     encrypted_data |-> <<>>, checksum |-> <<>>, final_ciphertext |-> <<>>]

\* a native call: its arguments, its position, its out-parameters and result
NativeCall(fn, level, key, data, env, pc) ==
    [fn |-> fn, level |-> level, key |-> key, data |-> data, env |-> env,
     pc |-> pc, ret |-> 0, out |-> NullPtr, out_len |-> 0, ev |-> <<>>, diag |-> ""]

\* no native call in progress
ConcIdle ==
    [proc |-> [p \in Procs |-> NativeCall("none", "", NoKey, <<>>, EnvOk, "idle")],
     frame |-> [p \in Procs |-> Frame0],
     overlap |-> FALSE]

\* one run of a native function on a buffer longer than a caller of the
\* addon passes in the other specifications: its arguments and its result
Run(fn, level, key, data, env, done, ret, out) ==
    [fn |-> fn, level |-> level, key |-> key, data |-> data, env |-> env,
     done |-> done, ret |-> ret, out |-> out]

\* no such run
CalcIdle == Run("none", "", NoKey, <<>>, EnvOk, FALSE, 0, <<>>)

Init ==
    /\ held = NoHeld
    /\ last = Call("none", <<>>, EnvOk, NoOutcome)
    /\ conc = ConcIdle
    /\ calc = CalcIdle

\* the environment's answers to a key generation
GenEnvs ==
    {[EnvOk EXCEPT !.newOk = a, !.mallocPk = b, !.mallocSk = c,
                   !.keypairOk = d, !.kid = k, !.heap = h] :
        a \in BOOLEAN, b \in BOOLEAN, c \in BOOLEAN, d \in BOOLEAN, k \in KeyIds,
        h \in HeapContents}

\* argument lists of generateKeypair
GenInfos == {<<StrArg(t)>> : t \in Tokens} \cup {<<>>, <<NumArg>>}

\* a token of the held level, of another level of the family, of the other
\* family, and no level at all
LevelChoices ==
    {held.level, "1024", "768", "3", "5", "768 ", ""}

\* a key of another identity, as another generateKeypair would return
OtherKey(k) == Key(k.len, CHOOSE i \in KeyIds : i # k.kid)

\* generateKeypair of the KEM addon
KemGenerateKeypairCall ==
    /\ UNCHANGED <<conc, calc>>
    /\ last.op = "none"
    /\ \E info \in GenInfos, env \in GenEnvs :
         LET out == KyberGenerateKeypairWrapped(info, env) IN
         /\ last' = Call("kem.generateKeypair", info, env, out)
         /\ held' = IF out.kind = "return"
                    THEN [NoHeld EXCEPT !.fam = "kem", !.level = info[1].s,
                                        !.pk = out.value.publicKey,
                                        !.sk = out.value.secretKey]
                    ELSE held

\* the environment's answers to an encrypt
\* coins the library's encapsulation may draw
Coins == {1, 2}

EncEnvs ==
    {[EnvOk EXCEPT !.r = c] : c \in Coins}
    \cup {[EnvOk EXCEPT !.newOk = FALSE], [EnvOk EXCEPT !.encapsOk = FALSE],
          [EnvOk EXCEPT !.mallocOut = FALSE]}
    \cup {[EnvOk EXCEPT !.throwAt = EncryptVectors[i]] : i \in 1..Len(EncryptVectors)}

\* encrypt calls a caller makes in a row
MaxEncrypts == 2

\* the nonce field of a hybrid ciphertext of payload length n
NonceOf(ct, n) ==
    SubSeq(ct, Len(ct) - n - SizeofUint32 - DecryptNonceLen + 1,
               Len(ct) - n - SizeofUint32)

\* argument lists of encrypt: the held key with every plaintext, other
\* levels and keys with one plaintext, and lists of the wrong shape; a
\* caller that already holds a ciphertext encrypts with the held key
EncInfos ==
    {<<StrArg(held.level), KeyArg(held.pk), BytesArg(pt)>> : pt \in BytesUpTo(MaxLen)}
    \cup
    IF held.encrypts > 0 THEN {}
    ELSE {<<StrArg(l), KeyArg(k), BytesArg(pt)>> :
            l \in LevelChoices, k \in {held.pk, OtherKey(held.pk), held.sk, NoKey},
            pt \in {<<>>, <<255>>}}
         \cup {<<>>, <<StrArg(held.level), KeyArg(held.pk)>>,
               <<NumArg, KeyArg(held.pk), BytesArg(<<0>>)>>,
               <<StrArg(held.level), NumArg, BytesArg(<<0>>)>>}

\* encrypt of the KEM addon
EncryptCall ==
    /\ UNCHANGED <<conc, calc>>
    /\ held.fam = "kem"
    /\ last.op \in {"kem.generateKeypair", "encrypt"}
    /\ last.out.kind = "return"
    /\ held.encrypts < MaxEncrypts
    /\ \E info \in EncInfos, env \in EncEnvs :
         LET out == EncryptWrapped(info, env) IN
         /\ last' = Call("encrypt", info, env, out)
         /\ held' = IF out.kind = "return" /\ info[2].k = held.pk
                    THEN [held EXCEPT !.ct = out.value, !.pt = info[3].b,
                                      !.encrypts = @ + 1,
                                      !.nonces = @ \cup {NonceOf(out.value, info[3].len)},
                                      !.coins = @ \cup {env.r}]
                    ELSE held

\* the environment's answers to a decrypt
DecEnvs ==
    {EnvOk, [EnvOk EXCEPT !.newOk = FALSE], [EnvOk EXCEPT !.decapsOk = FALSE],
     [EnvOk EXCEPT !.mallocOut = FALSE]}
    \cup {[EnvOk EXCEPT !.throwAt = DecryptVectors[i]] : i \in 1..Len(DecryptVectors)}

\* ciphertexts a caller may pass besides the held one: nothing, the held
\* one cut short, and buffers around the shortest length Decrypt accepts
CipherChoices ==
    LET kemLen == OQS_KEM_new(select_kyber_alg(held.level)).length_ciphertext
        base == IF held.ct = <<>> THEN Zeros(kemLen + 21) ELSE held.ct
    IN  {held.ct, <<>>, SubSeq(base, 1, Len(base) - 1),
         SubSeq(base, 1, kemLen + 20), SubSeq(base, 1, kemLen + 19),
         SubSeq(base, 1, 1)}

DecInfos ==
    {<<StrArg(held.level), KeyArg(k), BytesArg(ct)>> :
        k \in {held.sk, OtherKey(held.sk)}, ct \in CipherChoices}
    \cup {<<StrArg(l), KeyArg(k), BytesArg(held.ct)>> :
            l \in LevelChoices, k \in {held.sk, held.pk, NoKey}}
    \cup {<<>>, <<StrArg(held.level), KeyArg(held.sk)>>,
          <<NumArg, KeyArg(held.sk), BytesArg(held.ct)>>,
          <<StrArg(held.level), KeyArg(held.sk), NumArg>>}

\* decrypt of the KEM addon
DecryptCall ==
    /\ UNCHANGED <<conc, calc>>
    /\ held.fam = "kem"
    /\ last.op \in {"kem.generateKeypair", "encrypt"}
    /\ last.out.kind = "return"
    /\ held.encrypts <= 1
    /\ \E info \in DecInfos, env \in DecEnvs :
         /\ last' = Call("decrypt", info, env, DecryptWrapped(info, env))
         /\ held' = held

\* data with the byte at position i set to b
SetByte(data, i, b) == [data EXCEPT ![i] = b]

\* positions of the held ciphertext a tamperer changes: the ends of the KEM
\* ciphertext, the nonce, the checksum and the masked payload
TamperPositions ==
    LET n == Len(held.ct)
        kemLen == n - Len(held.pt) - DecryptNonceLen - SizeofUint32
    IN  {1, 2, kemLen} \cup ((kemLen + 1)..n)

InPayload(i) == i > Len(held.ct) - Len(held.pt)

\* decrypt of the held ciphertext after one byte of it was changed: to any
\* other value in the masked payload, to a few values elsewhere
DecryptTamperedCall ==
    /\ UNCHANGED <<conc, calc>>
    /\ held.fam = "kem"
    /\ last.op = "encrypt"
    /\ last.out.kind = "return"
    /\ held.encrypts = 1
    /\ \E i \in TamperPositions, b \in Byte :
         /\ b # held.ct[i]
         /\ InPayload(i) \/ b \in {0, 1, 255}
         /\ LET info == <<StrArg(held.level), KeyArg(held.sk),
                          BytesArg(SetByte(held.ct, i, b))>>
            IN  last' = Call("decrypt", info, EnvOk, DecryptWrapped(info, EnvOk))
         /\ held' = held

\* generateKeypair of the signature addon
SigGenerateKeypairCall ==
    /\ UNCHANGED <<conc, calc>>
    /\ last.op = "none"
    /\ \E info \in GenInfos, env \in GenEnvs :
         LET out == DilithiumGenerateKeypairWrapped(info, env) IN
         /\ last' = Call("sig.generateKeypair", info, env, out)
         /\ held' = IF out.kind = "return"
                    THEN [NoHeld EXCEPT !.fam = "sig", !.level = info[1].s,
                                        !.pk = out.value.publicKey,
                                        !.sk = out.value.secretKey]
                    ELSE held

\* the environment's answers to a sign
SignEnvs ==
    {EnvOk, [EnvOk EXCEPT !.newOk = FALSE], [EnvOk EXCEPT !.signOk = FALSE],
     [EnvOk EXCEPT !.mallocOut = FALSE]}

SignInfos ==
    {<<StrArg(held.level), KeyArg(held.sk), BytesArg(m)>> : m \in BytesUpTo(MaxLen)}
    \cup {<<StrArg(l), KeyArg(k), BytesArg(m)>> :
            l \in LevelChoices, k \in {held.sk, held.pk, NoKey},
            m \in {<<>>, <<255>>}}
    \cup {<<>>, <<StrArg(held.level), KeyArg(held.sk)>>,
          <<NumArg, KeyArg(held.sk), BytesArg(<<0>>)>>,
          <<StrArg(held.level), NumArg, BytesArg(<<0>>)>>}

\* sign of the signature addon
SignCall ==
    /\ UNCHANGED <<conc, calc>>
    /\ held.fam = "sig"
    /\ last.op = "sig.generateKeypair"
    /\ last.out.kind = "return"
    /\ \E info \in SignInfos, env \in SignEnvs :
         LET out == SignWrapped(info, env) IN
         /\ last' = Call("sign", info, env, out)
         /\ held' = IF out.kind = "return"
                    THEN [held EXCEPT !.sig = out.value, !.msg = info[3].b]
                    ELSE held

\* the environment's answers to a verify
VerifyEnvs == {[EnvOk EXCEPT !.newOk = a] : a \in BOOLEAN}

\* signatures a caller may pass besides the held one: nothing, the held one
\* cut short or extended, a single byte
SignatureChoices ==
    LET sigLen == OQS_SIG_new(select_dilithium_alg(held.level)).length_signature
        base == IF held.sig = <<>> THEN Zeros(sigLen) ELSE held.sig
    IN  {base, <<>>, SubSeq(base, 1, Len(base) - 1), base \o <<0>>, <<1>>}

VerifyInfos ==
    {<<StrArg(held.level), KeyArg(k), BytesArg(m), BytesArg(sg)>> :
        k \in {held.pk, OtherKey(held.pk)}, m \in {held.msg, <<0>>, <<255, 0>>},
        sg \in SignatureChoices}
    \cup {<<StrArg(l), KeyArg(k), BytesArg(held.msg), BytesArg(held.sig)>> :
            l \in LevelChoices, k \in {held.pk, held.sk, NoKey}}
    \cup {<<>>, <<StrArg(held.level), KeyArg(held.pk), BytesArg(held.msg)>>,
          <<NumArg, KeyArg(held.pk), BytesArg(held.msg), BytesArg(held.sig)>>,
          <<StrArg(held.level), KeyArg(held.pk), BytesArg(held.msg), NumArg>>}

\* verify of the signature addon
VerifyCall ==
    /\ UNCHANGED <<conc, calc>>
    /\ held.fam = "sig"
    /\ last.op \in {"sig.generateKeypair", "sign"}
    /\ last.out.kind = "return"
    /\ \E info \in VerifyInfos, env \in VerifyEnvs :
         /\ last' = Call("verify", info, env, VerifyWrapped(info, env))
         /\ held' = held

\* bit k (0..7) of byte b flipped
FlipBit(b, k) == Xor(b, 2 ^ k)

\* positions of the held signature whose bits a tamperer flips
FlipPositions == {1, 2, 3, 4, Len(held.sig)}

\* verify of the held signature after one bit of it, or of the message, was
\* flipped
VerifyTamperedCall ==
    /\ UNCHANGED <<conc, calc>>
    /\ held.fam = "sig"
    /\ last.op = "sign"
    /\ last.out.kind = "return"
    /\ \E k \in 0..7 :
         /\ \/ \E i \in FlipPositions :
                 LET info == <<StrArg(held.level), KeyArg(held.pk), BytesArg(held.msg),
                               BytesArg(SetByte(held.sig, i, FlipBit(held.sig[i], k)))>>
                 IN  last' = Call("verify", info, EnvOk, VerifyWrapped(info, EnvOk))
            \/ \E i \in 1..Len(held.msg) :
                 LET info == <<StrArg(held.level), KeyArg(held.pk),
                               BytesArg(SetByte(held.msg, i, FlipBit(held.msg[i], k))),
                               BytesArg(held.sig)>>
                 IN  last' = Call("verify", info, EnvOk, VerifyWrapped(info, EnvOk))
         /\ held' = held

Next ==
    \/ KemGenerateKeypairCall
    \/ EncryptCall
    \/ DecryptCall
    \/ DecryptTamperedCall
    \/ SigGenerateKeypairCall
    \/ SignCall
    \/ VerifyCall
    \/ VerifyTamperedCall

Spec == Init /\ [][Next]_vars

(***************************************************************************)
(* Two native calls in progress at once.  Each call runs Encrypt or Sign   *)
(* one step at a time; a step reads and writes the arguments and           *)
(* out-parameters of its own call and the automatic variables of its own   *)
(* frame, and the steps of the two calls interleave freely.                *)
(***************************************************************************)
\* one frame that both calls would use
SharedSlot(p) == 1

\* the frame of call p: kem, kem_ciphertext, shared_secret, encrypted_data,
\* checksum and final_ciphertext are automatic variables of the function
Slot(p) == p

\* the other call is between its first and its last step
Overlaps(p) ==
    \E q \in Procs \ {p} : conc.proc[q].pc \notin {"idle", "entry", "done"}

\* call p moves to pc with its frame set to frame and events ev added
Goto(p, pc, frame, ev) ==
    [conc EXCEPT !.proc[p].pc = pc, !.proc[p].ev = @ \o ev,
                 !.frame[Slot(p)] = frame,
                 !.overlap = @ \/ Overlaps(p)]

\* call p returns ret with its out-parameters set
Finish(p, ret, out, len, ev, diag) ==
    [conc EXCEPT !.proc[p].pc = "done", !.proc[p].ret = ret,
                 !.proc[p].out = out, !.proc[p].out_len = len,
                 !.proc[p].ev = @ \o ev, !.proc[p].diag = diag,
                 !.overlap = @ \/ Overlaps(p)]

\* call p runs fn and stands at pc
At(p, fn, pc) == conc.proc[p].fn = fn /\ conc.proc[p].pc = pc

\* Encrypt: the parameter checks and the choice of the algorithm
EncryptEntry(p) ==
    /\ At(p, "Encrypt", "entry")
    /\ UNCHANGED <<held, last, calc>>
    /\ LET c == conc.proc[p] IN
       conc' = IF c.level = NULL
               THEN Finish(p, -1, NullPtr, 0, <<>>, "Encrypt: Null input parameters")
               ELSE IF Len(c.data) = 0
               THEN Finish(p, -1, NullPtr, 0, <<>>, "Encrypt: Empty plaintext")
               ELSE IF select_kyber_alg(c.level) = NULL
               THEN Finish(p, -1, NullPtr, 0, <<>>, "Encrypt: Invalid security level")
               ELSE Goto(p, "new", conc.frame[Slot(p)], <<>>)

\* Encrypt: OQS_KEM_new and the test of the public key length
EncryptNew(p) ==
    /\ At(p, "Encrypt", "new")
    /\ UNCHANGED <<held, last, calc>>
    /\ LET c == conc.proc[p]
           kem == OQS_KEM_new(select_kyber_alg(c.level))
       IN  conc' = IF ~c.env.newOk
                   THEN Finish(p, -1, NullPtr, 0, <<Ev("OQS_KEM_new", "kem", FALSE)>>,
                               "Encrypt: Failed to initialize KEM")
                   ELSE IF c.key.len # kem.length_public_key
                   THEN Finish(p, -1, NullPtr, 0,
                               <<Ev("OQS_KEM_new", "kem", TRUE),
                                 Ev("OQS_KEM_free", "kem", TRUE)>>,
                               "Encrypt: Invalid recipient public key length.")
                   ELSE Goto(p, "encaps",
                             [conc.frame[Slot(p)] EXCEPT !.kem = "kem"],
                             <<Ev("OQS_KEM_new", "kem", TRUE)>>)

\* Encrypt: the two vectors and OQS_KEM_encaps
EncryptEncaps(p) ==
    /\ At(p, "Encrypt", "encaps")
    /\ UNCHANGED <<held, last, calc>>
    /\ LET c == conc.proc[p]
           f == conc.frame[Slot(p)]
           kem == OQS_KEM_new(select_kyber_alg(c.level))
           enc == OQS_KEM_encaps(kem, c.key, c.env.r)
       IN  conc' = IF \/ VectorThrows(c.env, "kem_ciphertext", kem.length_ciphertext)
                      \/ VectorThrows(c.env, "shared_secret", kem.length_shared_secret)
                   THEN Finish(p, -1, NullPtr, 0, CatchFree(f.kem),
                               "DEBUG-DIAG: Exception caught")
                   ELSE IF ~c.env.encapsOk
                   THEN Finish(p, -1, NullPtr, 0,
                               <<Ev("OQS_KEM_encaps", "kem", FALSE),
                                 Ev("OQS_KEM_free", "kem", TRUE)>>,
                               "Encrypt: KEM encapsulation failed")
                   ELSE Goto(p, "free",
                             [f EXCEPT !.kem_ciphertext = enc.ct,
                                       !.shared_secret = enc.ss],
                             <<Ev("OQS_KEM_encaps", "kem", TRUE)>>)

\* Encrypt: OQS_KEM_free(kem); kem = nullptr;
EncryptFree(p) ==
    /\ At(p, "Encrypt", "free")
    /\ UNCHANGED <<held, last, calc>>
    /\ LET f == conc.frame[Slot(p)] IN
       conc' = Goto(p, "mask", [f EXCEPT !.kem = KemAfterFree(f.kem)],
                    <<Ev("OQS_KEM_free", "kem", f.kem # NULL)>>)

\* Encrypt: the nonce, the masked payload and the checksum
EncryptMask(p) ==
    /\ At(p, "Encrypt", "mask")
    /\ UNCHANGED <<held, last, calc>>
    /\ LET c == conc.proc[p]
           f == conc.frame[Slot(p)]
       IN  conc' = IF \/ VectorThrows(c.env, "nonce", Len(Nonce))
                      \/ VectorThrows(c.env, "encrypted_data", Len(c.data))
                   THEN Finish(p, -1, NullPtr, 0, CatchFree(f.kem),
                               "DEBUG-DIAG: Exception caught")
                   ELSE Goto(p, "assemble",
                             [f EXCEPT !.encrypted_data =
                                           XorMask(c.data, f.shared_secret, Nonce),
                                       !.checksum = Checksum(c.data)],
                             <<>>)

\* Encrypt: final_len, the vector final_ciphertext and the memcpy's into it
EncryptAssemble(p) ==
    /\ At(p, "Encrypt", "assemble")
    /\ UNCHANGED <<held, last, calc>>
    /\ LET c == conc.proc[p]
           f == conc.frame[Slot(p)]
           final_len == Len(f.kem_ciphertext) + Len(Nonce) + SizeofUint32
                            + Len(f.encrypted_data)
       IN  conc' = IF VectorThrows(c.env, "final_ciphertext", final_len)
                   THEN Finish(p, -1, NullPtr, 0, CatchFree(f.kem),
                               "DEBUG-DIAG: Exception caught")
                   ELSE Goto(p, "malloc",
                             [f EXCEPT !.final_ciphertext =
                                           Assemble(f.kem_ciphertext, Nonce, f.checksum,
                                                    f.encrypted_data)],
                             <<>>)

\* Encrypt: the output buffer and the return
EncryptMalloc(p) ==
    /\ At(p, "Encrypt", "malloc")
    /\ UNCHANGED <<held, last, calc>>
    /\ LET c == conc.proc[p]
           f == conc.frame[Slot(p)]
           ev == <<Ev("malloc", "out_ciphertext", c.env.mallocOut)>>
       IN  conc' = IF ~c.env.mallocOut
                   THEN Finish(p, -1, NullPtr, 0, ev,
                               "Encrypt: Memory allocation for output failed.")
                   ELSE Finish(p, 0, Live(f.final_ciphertext),
                               Len(f.final_ciphertext), ev, "")

\* Sign: the parameter checks and the choice of the algorithm
SignEntry(p) ==
    /\ At(p, "Sign", "entry")
    /\ UNCHANGED <<held, last, calc>>
    /\ LET c == conc.proc[p] IN
       conc' = IF c.level = NULL
               THEN Finish(p, -1, NullPtr, 0, <<>>, "Sign: Null input parameters")
               ELSE IF Len(c.data) = 0
               THEN Finish(p, -1, NullPtr, 0, <<>>, "Sign: Empty message")
               ELSE IF select_dilithium_alg(c.level) = NULL
               THEN Finish(p, -1, NullPtr, 0, <<>>, "Sign: Invalid security level")
               ELSE Goto(p, "new", conc.frame[Slot(p)], <<>>)

\* Sign: OQS_SIG_new and the test of the secret key length
SignNew(p) ==
    /\ At(p, "Sign", "new")
    /\ UNCHANGED <<held, last, calc>>
    /\ LET c == conc.proc[p]
           sig == OQS_SIG_new(select_dilithium_alg(c.level))
       IN  conc' = IF ~c.env.newOk
                   THEN Finish(p, -1, NullPtr, 0, <<Ev("OQS_SIG_new", "sig", FALSE)>>,
                               "Sign: Failed to initialize signature")
                   ELSE IF c.key.len # sig.length_secret_key
                   THEN Finish(p, -1, NullPtr, 0,
                               <<Ev("OQS_SIG_new", "sig", TRUE),
                                 Ev("OQS_SIG_free", "sig", TRUE)>>,
                               "Sign: Invalid secret key length.")
                   ELSE Goto(p, "malloc",
                             [conc.frame[Slot(p)] EXCEPT !.kem = "sig"],
                             <<Ev("OQS_SIG_new", "sig", TRUE)>>)

\* Sign: *signature = malloc(max_sig_len), the block stored in the call's
\* out-parameter before anything is written to it
SignMalloc(p) ==
    /\ At(p, "Sign", "malloc")
    /\ UNCHANGED <<held, last, calc>>
    /\ LET c == conc.proc[p]
           sig == OQS_SIG_new(select_dilithium_alg(c.level))
           ev == <<Ev("malloc", "signature", c.env.mallocOut)>>
       IN  conc' = IF ~c.env.mallocOut
                   THEN Finish(p, -1, NullPtr, 0,
                               ev \o <<Ev("OQS_SIG_free", "sig", TRUE)>>,
                               "Sign: Memory allocation for signature failed.")
                   ELSE [Goto(p, "sign", conc.frame[Slot(p)], ev)
                            EXCEPT !.proc[p].out =
                                       Live(Unwritten(sig.length_signature, c.env.heap))]

\* Sign: OQS_SIG_sign into the buffer of the call's out-parameter
SignSign(p) ==
    /\ At(p, "Sign", "sign")
    /\ UNCHANGED <<held, last, calc>>
    /\ LET c == conc.proc[p]
           sig == OQS_SIG_new(select_dilithium_alg(c.level))
           written == SignWritten(sig, c.data, c.key, c.env.short)
       IN  conc' = IF ~c.env.signOk
                   THEN Finish(p, -1, NullPtr, 0,
                               SignAttempt(FALSE)
                                   \o <<Ev("free", "signature", TRUE),
                                        Ev("OQS_SIG_free", "sig", TRUE)>>,
                               "Sign: Signature generation failed.")
                   ELSE [Goto(p, "free", conc.frame[Slot(p)], SignAttempt(TRUE))
                            EXCEPT !.proc[p].out =
                                       Live(written \o Unwritten(c.env.short, c.env.heap)),
                                   !.proc[p].out_len = Len(written)]

\* Sign: OQS_SIG_free(sig); return 0;
SignFree(p) ==
    /\ At(p, "Sign", "free")
    /\ UNCHANGED <<held, last, calc>>
    /\ LET c == conc.proc[p]
           f == conc.frame[Slot(p)]
       IN  conc' = Finish(p, 0, c.out, c.out_len,
                          <<Ev("OQS_SIG_free", "sig", f.kem # NULL)>>, "")

\* the bytes call p passes: the two calls have different parameters
ConcData(p) == {<<p>>, <<255, p>>}

\* the library's answers to the Encrypt of call p
ConcEncEnvs(p) ==
    {[EnvOk EXCEPT !.r = p], [EnvOk EXCEPT !.newOk = FALSE],
     [EnvOk EXCEPT !.encapsOk = FALSE], [EnvOk EXCEPT !.mallocOut = FALSE]}
    \cup {[EnvOk EXCEPT !.throwAt = EncryptVectors[i]] : i \in 1..Len(EncryptVectors)}

\* the library's answers to the Sign of call p
ConcSignEnvs ==
    {EnvOk, [EnvOk EXCEPT !.newOk = FALSE], [EnvOk EXCEPT !.signOk = FALSE],
     [EnvOk EXCEPT !.mallocOut = FALSE], [EnvOk EXCEPT !.heap = 2]}

\* the native calls p may make: Encrypt at level 768 and Sign at level 3
\* with its own key, and calls that fail a parameter check
ConcCalls(p) ==
    {NativeCall("Encrypt", "768", Key(1184, p), d, env, "entry") :
        d \in ConcData(p), env \in ConcEncEnvs(p)}
    \cup {NativeCall("Sign", "3", Key(4032, p), d, env, "entry") :
            d \in ConcData(p), env \in ConcSignEnvs}
    \cup {NativeCall("Encrypt", "768", Key(2400, p), <<p>>, EnvOk, "entry"),
          NativeCall("Encrypt", "7", Key(1184, p), <<p>>, EnvOk, "entry"),
          NativeCall("Encrypt", "768", Key(1184, p), <<>>, EnvOk, "entry"),
          NativeCall("Sign", "3", Key(1952, p), <<p>>, EnvOk, "entry"),
          NativeCall("Sign", "768", Key(4032, p), <<p>>, EnvOk, "entry"),
          NativeCall("Sign", "3", Key(4032, p), <<>>, EnvOk, "entry")}

InitConc ==
    /\ held = NoHeld
    /\ last = Call("none", <<>>, EnvOk, NoOutcome)
    /\ calc = CalcIdle
    /\ \E c1 \in ConcCalls(1), c2 \in ConcCalls(2) :
         conc = [proc |-> [p \in Procs |-> IF p = 1 THEN c1 ELSE c2],
                 frame |-> [p \in Procs |-> Frame0],
                 overlap |-> FALSE]

NextConc ==
    \E p \in Procs :
        \/ EncryptEntry(p)
        \/ EncryptNew(p)
        \/ EncryptEncaps(p)
        \/ EncryptFree(p)
        \/ EncryptMask(p)
        \/ EncryptAssemble(p)
        \/ EncryptMalloc(p)
        \/ SignEntry(p)
        \/ SignNew(p)
        \/ SignMalloc(p)
        \/ SignSign(p)
        \/ SignFree(p)

SpecConc == InitConc /\ [][NextConc]_vars

(***************************************************************************)
(* The checksum loop and Encrypt on long buffers.  The 32-bit checksum     *)
(* wraps from the sixth byte on, and the mask of Encrypt repeats after     *)
(* the shared secret's length, so these runs take buffers longer than      *)
(* MaxLen, drawn from a few patterns.                                      *)
(***************************************************************************)
\* longest buffer of a checksum run
SumLen == 7

\* the bytes of a checksum run
SumBytes == {0, 1, 255}

RECURSIVE SeqsOf(_, _)
\* the sequences over set s of length n
SeqsOf(s, n) ==
    IF n = 0 THEN {<<>>}
    ELSE {Append(t, b) : t \in SeqsOf(s, n - 1), b \in s}

\* the buffers of the checksum runs
SumInputs == UNION {SeqsOf(SumBytes, n) : n \in 0..SumLen}

\* the checksum loop of Encrypt and Decrypt on one buffer
ChecksumRun ==
    /\ calc.fn = "checksum"
    /\ ~calc.done
    /\ calc' = [calc EXCEPT !.done = TRUE, !.out = Checksum(calc.data)]
    /\ UNCHANGED <<held, last, conc>>

\* longest plaintext of an Encrypt run: two bytes past the shared secret
MaskLen == 34

\* the plaintexts of the Encrypt runs: a byte that steps by a from b
MaskInputs ==
    {[i \in 1..n |-> ((a * i) + b) % 256] :
        a \in {0, 1, 7, 85}, b \in {0, 255}, n \in {1, MaskLen - 2, MaskLen - 1, MaskLen}}

\* the levels of the Encrypt runs
MaskLevels == {"512", "768"}

\* Encrypt on one plaintext
EncryptRun ==
    /\ calc.fn = "Encrypt"
    /\ ~calc.done
    /\ LET r == Encrypt(calc.level, calc.key, calc.data, calc.env) IN
       calc' = [calc EXCEPT !.done = TRUE, !.ret = r.ret, !.out = r.out_ciphertext.val]
    /\ UNCHANGED <<held, last, conc>>

\* bytes fewer than the profile's maximum that the signer may write
MaxShort == 2

\* the messages of the sign runs
SignRunMessages == {<<1>>, <<255, 0>>, <<7, 7, 7>>}

\* the levels of the sign runs
SignRunLevels == {"2", "3"}

\* the library's answers to a sign run
SignRunEnvs ==
    {[EnvOk EXCEPT !.short = n, !.heap = h] : n \in 0..MaxShort, h \in HeapContents}
    \cup {[EnvOk EXCEPT !.signOk = FALSE]}

\* sign of the signature addon with a signer that may write a signature
\* shorter than the profile's maximum
SignRun ==
    /\ calc.fn = "sign"
    /\ ~calc.done
    /\ LET out == SignWrapped(<<StrArg(calc.level), KeyArg(calc.key),
                                BytesArg(calc.data)>>, calc.env)
       IN  calc' = [calc EXCEPT !.done = TRUE, !.ret = out.ret,
                                !.out = IF out.kind = "return" THEN out.value ELSE <<>>]
    /\ UNCHANGED <<held, last, conc>>

InitCalc ==
    /\ held = NoHeld
    /\ last = Call("none", <<>>, EnvOk, NoOutcome)
    /\ conc = ConcIdle
    /\ calc \in {Run("checksum", "", NoKey, d, EnvOk, FALSE, 0, <<>>) : d \in SumInputs}
               \cup {Run("Encrypt", l, Key(KyberExpectedPubKeySize(l), k), d,
                         [EnvOk EXCEPT !.r = c], FALSE, 0, <<>>) :
                        l \in MaskLevels, k \in KeyIds, c \in Coins, d \in MaskInputs}
               \cup {Run("sign", l, Key(DilithiumExpectedSecKeySize(l), k), d, env,
                         FALSE, 0, <<>>) :
                        l \in SignRunLevels, k \in KeyIds, d \in SignRunMessages,
                        env \in SignRunEnvs}

NextCalc == ChecksumRun \/ EncryptRun \/ SignRun

SpecCalc == InitCalc /\ [][NextCalc]_vars

(***************************************************************************)
(* Properties.                                                             *)
(***************************************************************************)
\* the last call was op with n arguments, a string first and buffers after
WellTyped(op, n) ==
    /\ last.op = op
    /\ Len(last.info) = n
    /\ IsString(last.info[1])
    /\ \A i \in 2..n : IsBuffer(last.info[i])

\* the environment failed nothing in the last call
NoFault ==
    /\ last.env.newOk /\ last.env.encapsOk /\ last.env.decapsOk
    /\ last.env.mallocOut /\ last.env.signOk
    /\ last.env.throwAt = "none"

\* the last call was decrypt(level, sk, ct) of the held pair and ciphertext
HonestDecrypt ==
    /\ held.ct # <<>>
    /\ last.op = "decrypt"
    /\ last.info = <<StrArg(held.level), KeyArg(held.sk), BytesArg(held.ct)>>

\* C1: hybrid round trip.  Encrypt under a generated public key of any
\* plaintext of one byte or more returns a ciphertext, and decrypt of that
\* ciphertext under the pair's secret key returns exactly the plaintext
\* (when the environment fails no handle, allocation or primitive); encrypt
\* of an empty plaintext is an error, in the wrapper and in the library.
C1_RoundTrip ==
    /\ (HonestDecrypt /\ NoFault) =>
         /\ last.out.kind = "return"
         /\ last.out.value = held.pt
         /\ Len(held.pt) >= 1
    /\ (WellTyped("encrypt", 3) /\ NoFault /\ last.info[3].len >= 1
          /\ last.info[1].s = held.level /\ last.info[2].k = held.pk) =>
         /\ last.out.kind = "return"
         /\ held.pt = last.info[3].b
         /\ held.ct = last.out.value
    /\ (WellTyped("encrypt", 3) /\ last.info[3].len = 0) =>
         /\ last.out.kind = "throw"
         /\ Encrypt(last.info[1].s, last.info[2].k, last.info[3].b, last.env).ret = -1

\* a decrypt returned a plaintext of two bytes the caller had encrypted
C1_Witness ==
    /\ HonestDecrypt /\ NoFault
    /\ last.out.kind = "return"
    /\ last.out.value = held.pt
    /\ Len(held.pt) >= 2

\* the payload positions at which ciphertext c differs from the held one
PayloadDiff(c) ==
    {i \in (Len(held.ct) - Len(held.pt) + 1)..Len(held.ct) : c[i] # held.ct[i]}

\* the last call was decrypt of the held ciphertext with exactly one byte of
\* its masked payload changed, under the matching key
OnePayloadByteChanged ==
    /\ held.ct # <<>>
    /\ WellTyped("decrypt", 3)
    /\ last.info[1].s = held.level
    /\ last.info[2].k = held.sk
    /\ Len(last.info[3].b) = Len(held.ct)
    /\ SubSeq(last.info[3].b, 1, Len(held.ct) - Len(held.pt))
         = SubSeq(held.ct, 1, Len(held.ct) - Len(held.pt))
    /\ Cardinality(PayloadDiff(last.info[3].b)) = 1

\* C2: integrity.  Decrypt of a ciphertext that Encrypt produced, with one
\* byte of the masked payload changed to any other value, fails under the
\* matching secret key: it returns no plaintext, and with a working
\* environment the failure is the checksum's.
C2_PayloadIntegrity ==
    OnePayloadByteChanged =>
        /\ last.out.kind = "throw"
        /\ last.out.ret = -1
        /\ NoFault => last.out.diag = "Decrypt: Checksum verification failed"

\* the last payload byte of a two-byte plaintext's ciphertext was changed
\* and decrypt failed on the checksum
C2_Witness ==
    /\ OnePayloadByteChanged
    /\ Len(held.pt) >= 2
    /\ PayloadDiff(last.info[3].b) = {Len(held.ct)}
    /\ last.out.kind = "throw"
    /\ last.out.diag = "Decrypt: Checksum verification failed"

\* the last verify call passed every check on the shape of its input
VerifyWellFormed ==
    /\ WellTyped("verify", 4)
    /\ DilithiumLevelOk(last.info[1].s)
    /\ last.info[3].len > 0
    /\ last.info[4].len > 0
    /\ last.info[2].len
         = OQS_SIG_new(select_dilithium_alg(last.info[1].s)).length_public_key

\* the primitive's answer to the last verify call's arguments
PrimitiveAccepts ==
    OQS_SIG_verify(OQS_SIG_new(select_dilithium_alg(last.info[1].s)),
                   last.info[3].b, last.info[4].b, last.info[2].k)

\* C3: verify has three outcomes.  On well-formed input with a handle, a
\* signature the primitive does not accept gives native code 1 and the
\* wrapper's false, one it accepts gives 0 and true; verify throws only on
\* malformed input or when the handle cannot be created.
C3_VerifyOutcomes ==
    /\ (VerifyWellFormed /\ last.env.newOk /\ ~PrimitiveAccepts) =>
         /\ last.out.kind = "return"
         /\ last.out.value = FALSE
         /\ last.out.ret = 1
    /\ (VerifyWellFormed /\ last.env.newOk /\ PrimitiveAccepts) =>
         /\ last.out.kind = "return"
         /\ last.out.value = TRUE
         /\ last.out.ret = 0
    /\ (last.op = "verify" /\ last.out.kind = "throw") =>
         \/ ~VerifyWellFormed
         \/ ~last.env.newOk /\ last.out.ret < 0

\* verify of the held signature with one bit flipped returned false
C3_Witness ==
    /\ VerifyWellFormed
    /\ held.sig # <<>>
    /\ last.info[3].b = held.msg
    /\ Len(last.info[4].b) = Len(held.sig)
    /\ last.info[4].b # held.sig
    /\ last.out.kind = "return"
    /\ last.out.value = FALSE
    /\ last.out.ret = 1

\* the profile of the last call's level token in the signature family
SigProfile == OQS_SIG_new(select_dilithium_alg(last.info[1].s))

\* the profile of the last call's level token in the KEM family
KemProfile == OQS_KEM_new(select_kyber_alg(last.info[1].s))

\* C4: length enforcement.  A sign, verify, encrypt or decrypt call whose
\* key, KEM-ciphertext or signature buffer has not the length the level's
\* profile fixes ends in an error; verify with a signature of another
\* length than the profile's is an error, not a boolean.
C4_LengthEnforcement ==
    /\ (WellTyped("verify", 4) /\ DilithiumLevelOk(last.info[1].s)
          /\ (\/ last.info[2].len # SigProfile.length_public_key
              \/ last.info[4].len # SigProfile.length_signature)) =>
         last.out.kind = "throw"
    /\ (WellTyped("sign", 3) /\ DilithiumLevelOk(last.info[1].s)
          /\ last.info[2].len # SigProfile.length_secret_key) =>
         last.out.kind = "throw"
    /\ (WellTyped("encrypt", 3) /\ KyberLevelOk(last.info[1].s)
          /\ last.info[2].len # KemProfile.length_public_key) =>
         last.out.kind = "throw"
    /\ (WellTyped("decrypt", 3) /\ KyberLevelOk(last.info[1].s)
          /\ (\/ last.info[2].len # KemProfile.length_secret_key
              \/ last.info[3].len < KemProfile.length_ciphertext)) =>
         last.out.kind = "throw"

\* the indices of the events of the last call
Events == 1..Len(last.out.ev)

\* event i of the last call is function fn acting on some object
IsEv(i, fn) == last.out.ev[i][1] = fn

\* events i and j of the last call act on the same object
SameObj(i, j) == last.out.ev[i][2] = last.out.ev[j][2]

\* C5: no leak.  When an exposed operation returns or throws, every buffer
\* a malloc of the call returned has been freed by a later free of the call.
C5_NoLeak ==
    \A i \in Events :
        (IsEv(i, "malloc") /\ last.out.ev[i][3]) =>
            \E j \in Events : j > i /\ IsEv(j, "free") /\ SameObj(i, j)

\* C6: no double free and no use after free.  In every call each buffer is
\* freed at most once, only after its malloc succeeded, and every copy out
\* of a buffer reads a live buffer, before its free.
C6_NoDoubleFreeNoUseAfterFree ==
    /\ \A i \in Events, j \in Events :
         (IsEv(i, "free") /\ IsEv(j, "free") /\ SameObj(i, j)) => i = j
    /\ \A j \in Events :
         IsEv(j, "free") =>
            \E i \in Events :
                i < j /\ IsEv(i, "malloc") /\ SameObj(i, j) /\ last.out.ev[i][3]
    /\ \A i \in Events :
         IsEv(i, "copy") =>
            /\ last.out.ev[i][3]
            /\ \A j \in Events : (IsEv(j, "free") /\ SameObj(i, j)) => i < j

\* the library failed to generate the pair, freed both key buffers and the
\* wrapper threw without touching them
C6_Witness ==
    /\ last.op = "kem.generateKeypair"
    /\ last.out.kind = "throw"
    /\ last.out.called
    /\ ~last.env.keypairOk
    /\ \E i \in Events, j \in Events :
         /\ last.out.ev[i] = Ev("free", "public_key", TRUE)
         /\ last.out.ev[j] = Ev("free", "secret_key", TRUE)
    /\ \A i \in Events : ~IsEv(i, "copy")

KemTokens == {"512", "768", "1024"}

SigTokens == {"2", "3", "5"}

KemOps == {"kem.generateKeypair", "encrypt", "decrypt"}

SigOps == {"sig.generateKeypair", "sign", "verify"}

\* the last call got as far as the wrapper's test of the level token
ReachedLevelTest ==
    \/ last.op \in {"kem.generateKeypair", "sig.generateKeypair"}
         /\ Len(last.info) >= 1 /\ IsString(last.info[1])
    \/ WellTyped("encrypt", 3) \/ WellTyped("decrypt", 3)
    \/ WellTyped("sign", 3) \/ WellTyped("verify", 4)

\* the last call threw the wrapper's invalid-level error
LevelError ==
    /\ last.out.kind = "throw"
    /\ last.out.etype = "TypeError"
    /\ last.out.msg = IF last.op \in KemOps
                      THEN "Security level must be one of: 512, 768, 1024"
                      ELSE "Security level must be one of: 2, 3, 5"

\* C7: level resolution.  The KEM family resolves exactly "512", "768",
\* "1024" and the signature family exactly "2", "3", "5"; a call with any
\* other token throws the invalid-level error before the native function
\* runs, so with no handle created and no buffer allocated, and a call with
\* a token of its family never throws that error.
C7_LevelResolution ==
    /\ \A t \in Tokens :
         /\ (select_kyber_alg(t) # NULL) <=> (t \in KemTokens)
         /\ (select_dilithium_alg(t) # NULL) <=> (t \in SigTokens)
         /\ KyberLevelOk(t) <=> (t \in KemTokens)
         /\ DilithiumLevelOk(t) <=> (t \in SigTokens)
    /\ (ReachedLevelTest /\ last.op \in KemOps /\ last.info[1].s \notin KemTokens) =>
         LevelError /\ ~last.out.called /\ last.out.ev = <<>>
    /\ (ReachedLevelTest /\ last.op \in SigOps /\ last.info[1].s \notin SigTokens) =>
         LevelError /\ ~last.out.called /\ last.out.ev = <<>>
    /\ (last.op \in KemOps \cup SigOps /\ Len(last.info) >= 1
          /\ IsString(last.info[1])
          /\ last.info[1].s \notin (IF last.op \in KemOps THEN KemTokens ELSE SigTokens)) =>
         last.out.kind = "throw" /\ ~last.out.called /\ last.out.ev = <<>>
    /\ (ReachedLevelTest /\ last.op \in KemOps /\ last.info[1].s \in KemTokens) =>
         ~LevelError
    /\ (ReachedLevelTest /\ last.op \in SigOps /\ last.info[1].s \in SigTokens) =>
         ~LevelError

\* encrypt was called with a token of the signature family and threw the
\* invalid-level error with no native event
C7_Witness ==
    /\ WellTyped("encrypt", 3)
    /\ last.info[1].s \in SigTokens
    /\ last.info[3].len > 0
    /\ LevelError
    /\ last.out.ev = <<>>

\* the kind of failure behind a thrown error, by the taxonomy's classes
FailureKind(out) ==
    IF ~out.called THEN "InvalidInput"
    ELSE IF out.diag = "Decrypt: Checksum verification failed" THEN "IntegrityFailure"
    ELSE IF out.diag = "Decrypt: Failed to initialize KEM" THEN "AlgorithmInit"
    ELSE IF out.diag = "Decrypt: Memory allocation for output failed." THEN "AllocationFailure"
    ELSE IF out.diag = "DEBUG-DIAG: Exception caught in decrypt" THEN "AllocationFailure"
    ELSE IF out.diag = "Decrypt: KEM decapsulation failed" THEN "PrimitiveFailure"
    ELSE "InvalidInput"

\* the error value the caller receives
ErrorValue(out) == <<out.etype, out.msg>>

\* the outcomes of other decrypt calls with the held key: a one-byte
\* ciphertext and the held one, under each answer of the environment
OtherDecrypts ==
    {DecryptWrapped(<<StrArg(held.level), KeyArg(held.sk), BytesArg(c)>>, e) :
        c \in {<<0>>, held.ct}, e \in DecEnvs}

\* C8: closed error taxonomy.  Two decrypt calls that fail for different
\* kinds of reason (invalid input, handle initialisation, allocation,
\* primitive, checksum mismatch) throw different error values.
C8_ErrorsDistinguishable ==
    (last.op = "decrypt" /\ last.out.kind = "throw" /\ last.out.called) =>
        \A o \in OtherDecrypts :
            (o.kind = "throw" /\ FailureKind(o) # FailureKind(last.out)) =>
                ErrorValue(o) # ErrorValue(last.out)

\* C9: nonce freshness.  The nonce of a hybrid ciphertext is drawn per
\* Encrypt call: ciphertexts of two calls for which the library drew
\* different randomness do not all carry the same nonce.
C9_NonceFreshness ==
    (held.encrypts >= 2 /\ Cardinality(held.coins) >= 2) =>
        Cardinality(held.nonces) >= 2

\* the last call was refused for its key: by the wrapper, in a throw that is
\* none of its other refusals of a well-typed call, or by the library
KeySizeRefused ==
    \/ /\ last.out.kind = "throw" /\ ~last.out.called
       /\ last.out.msg \notin
            {"Security level must be one of: 512, 768, 1024",
             "Security level must be one of: 2, 3, 5",
             "Plaintext buffer is empty", "Ciphertext buffer is empty",
             "Message buffer is empty", "Signature buffer is empty"}
    \/ /\ last.out.kind = "throw" /\ last.out.called
       /\ last.out.diag \in
            {"Encrypt: Invalid recipient public key length.",
             "Decrypt: Invalid recipient secret key length.",
             "Sign: Invalid secret key length.",
             "Verify: Invalid public key length."}

\* C10: profile lengths.  The key lengths generateKeypair returns are the
\* lengths the encrypt, decrypt, sign and verify wrappers require for the
\* same level, "768" gives 1184 / 2400 and signature level "5" gives
\* 2592 / 4896, and a call with the level and a key of the generated pair
\* is never refused for the key's size.
C10_ProfileLengths ==
    /\ (last.op = "kem.generateKeypair" /\ last.out.kind = "return") =>
         /\ last.out.value.publicKey.len = KyberExpectedPubKeySize(last.info[1].s)
         /\ last.out.value.secretKey.len = KyberExpectedSecKeySize(last.info[1].s)
         /\ last.info[1].s = "768" =>
              /\ last.out.value.publicKey.len = 1184
              /\ last.out.value.secretKey.len = 2400
    /\ (last.op = "sig.generateKeypair" /\ last.out.kind = "return") =>
         /\ last.out.value.publicKey.len = DilithiumExpectedPubKeySize(last.info[1].s)
         /\ last.out.value.secretKey.len = DilithiumExpectedSecKeySize(last.info[1].s)
         /\ last.info[1].s = "5" =>
              /\ last.out.value.publicKey.len = 2592
              /\ last.out.value.secretKey.len = 4896
    /\ ((WellTyped("encrypt", 3) \/ WellTyped("verify", 4))
          /\ last.info[1].s = held.level /\ last.info[2].k = held.pk) =>
         ~KeySizeRefused
    /\ ((WellTyped("decrypt", 3) \/ WellTyped("sign", 3))
          /\ last.info[1].s = held.level /\ last.info[2].k = held.sk) =>
         ~KeySizeRefused

\* generateKeypair("768") returned keys of 1184 and 2400 bytes
C10_Witness ==
    /\ last.op = "kem.generateKeypair"
    /\ last.out.kind = "return"
    /\ last.info[1].s = "768"
    /\ last.out.value.publicKey.len = 1184
    /\ last.out.value.secretKey.len = 2400

\* C11: signature round trip.  sign with the secret key of a generated pair
\* and a message of one byte or more returns the signature bytes the
\* primitive wrote, unchanged and all of them, and verify of that signature
\* with the pair's public key and the same message returns true (when the
\* environment fails no handle, allocation or primitive).
C11_SignatureRoundTrip ==
    /\ (WellTyped("sign", 3) /\ NoFault /\ last.info[3].len >= 1
          /\ last.info[1].s = held.level /\ last.info[2].k = held.sk) =>
         /\ last.out.kind = "return"
         /\ last.out.value = OQS_SIG_sign(SigProfile, last.info[3].b, held.sk)
         /\ held.sig = last.out.value
         /\ held.msg = last.info[3].b
    /\ (WellTyped("verify", 4) /\ last.env.newOk /\ held.sig # <<>>
          /\ last.info = <<StrArg(held.level), KeyArg(held.pk),
                           BytesArg(held.msg), BytesArg(held.sig)>>) =>
         /\ last.out.kind = "return"
         /\ last.out.value = TRUE
         /\ last.out.ret = 0

\* verify returned true for the signature of a two-byte message
C11_Witness ==
    /\ WellTyped("verify", 4)
    /\ held.sig # <<>>
    /\ Len(held.msg) >= 2
    /\ last.info[3].b = held.msg
    /\ last.info[4].b = held.sig
    /\ last.info[2].k = held.pk
    /\ last.out.kind = "return"
    /\ last.out.value = TRUE

\* event i of the last call created a handle, or tried to
IsNew(i) == IsEv(i, "OQS_KEM_new") \/ IsEv(i, "OQS_SIG_new")

\* event i of the last call released a handle
IsRelease(i) == IsEv(i, "OQS_KEM_free") \/ IsEv(i, "OQS_SIG_free")

\* C12: handle lifecycle.  A call asks for a handle at most once; when the
\* handle was created it is released exactly once, after its creation, on
\* every path, and a call that created none releases none.
C12_HandleLifecycle ==
    /\ \A i \in Events, j \in Events : (IsNew(i) /\ IsNew(j)) => i = j
    /\ \A i \in Events, j \in Events : (IsRelease(i) /\ IsRelease(j)) => i = j
    /\ \A i \in Events :
         (IsNew(i) /\ last.out.ev[i][3]) =>
            \E j \in Events : j > i /\ IsRelease(j)
    /\ \A j \in Events :
         IsRelease(j) => \E i \in Events : i < j /\ IsNew(i) /\ last.out.ev[i][3]

\* a std::vector allocation threw in Encrypt after the handle was released,
\* and the catch block released nothing more
C12_Witness ==
    /\ last.op = "encrypt"
    /\ last.env.throwAt = "final_ciphertext"
    /\ last.out.kind = "throw"
    /\ \E i \in Events : IsNew(i) /\ last.out.ev[i][3]
    /\ Cardinality({j \in Events : IsRelease(j)}) = 1

\* the ciphertext argument of the last decrypt call
CtArg == last.info[3].b

\* the fields of the ciphertext argument, by the layout's fixed offsets
KemPart == SubSeq(CtArg, 1, KemProfile.length_ciphertext)

NoncePart ==
    SubSeq(CtArg, KemProfile.length_ciphertext + 1, KemProfile.length_ciphertext + 16)

ChecksumPart ==
    SubSeq(CtArg, KemProfile.length_ciphertext + 17, KemProfile.length_ciphertext + 20)

PayloadPart == SubSeq(CtArg, KemProfile.length_ciphertext + 21, Len(CtArg))

\* the last call performed the event named fn with answer ok
Did(fn, ok) == \E i \in Events : IsEv(i, fn) /\ last.out.ev[i][3] = ok

\* C14: Decrypt rejects a ciphertext shorter than the KEM ciphertext plus 20
\* bytes with an error, without calling the decapsulation, without
\* allocating an output and without returning any byte.
C14_ShortCiphertextRejected ==
    (WellTyped("decrypt", 3) /\ KyberLevelOk(last.info[1].s)
       /\ Len(CtArg) < KemProfile.length_ciphertext + 20) =>
        /\ last.out.kind = "throw"
        /\ last.out.value = <<>>
        /\ \A i \in Events : ~IsEv(i, "OQS_KEM_decaps") /\ ~IsEv(i, "malloc")
        /\ (last.out.called /\ last.env.newOk
              /\ last.info[2].len = KemProfile.length_secret_key) =>
             last.out.diag = "Decrypt: Ciphertext too short."

\* decrypt of a ciphertext one byte short of the minimum was refused by the
\* library as too short
C14_Witness ==
    /\ WellTyped("decrypt", 3)
    /\ KyberLevelOk(last.info[1].s)
    /\ Len(CtArg) = KemProfile.length_ciphertext + 19
    /\ last.out.called
    /\ last.out.diag = "Decrypt: Ciphertext too short."

\* the bytes Decrypt unmasks from the ciphertext argument
Unmasked ==
    XorMask(PayloadPart, OQS_KEM_decaps(KemProfile, KemPart, last.info[2].k),
            NoncePart)

\* C15: Decrypt succeeds only on an equal checksum.  A successful decrypt
\* returns bytes whose checksum is the one the ciphertext carries, and a
\* decrypt whose decapsulation succeeded but whose unmasked bytes have
\* another checksum than the carried one fails.
C15_ChecksumRequired ==
    /\ (last.op = "decrypt" /\ last.out.kind = "return") =>
         /\ Did("OQS_KEM_decaps", TRUE)
         /\ last.out.value = Unmasked
         /\ Checksum(last.out.value) = ChecksumPart
    /\ (last.op = "decrypt" /\ last.out.called /\ Did("OQS_KEM_decaps", TRUE)
          /\ Checksum(Unmasked) # ChecksumPart) =>
         /\ last.out.kind = "throw"
         /\ last.out.ret = -1

\* decrypt of the held ciphertext with a byte of its KEM part changed:
\* the decapsulation succeeded and the call failed
C15_Witness ==
    /\ WellTyped("decrypt", 3)
    /\ last.out.called
    /\ held.ct # <<>>
    /\ last.info[2].k = held.sk
    /\ Len(CtArg) = Len(held.ct)
    /\ KemPart # SubSeq(held.ct, 1, KemProfile.length_ciphertext)
    /\ Did("OQS_KEM_decaps", TRUE)
    /\ last.out.kind = "throw"
    /\ last.out.diag = "Decrypt: Checksum verification failed"

\* what Decrypt returns for the last decrypt call's arguments
NativeDecrypt == Decrypt(last.info[1].s, last.info[2].k, CtArg, last.env)

\* C16: no partial plaintext on failure.  Every failing return of Decrypt
\* leaves the output pointer null and the output length 0, and the wrapper
\* then throws and hands no byte to the caller.
C16_NoPartialPlaintext ==
    /\ (last.op = "decrypt" /\ last.out.called /\ NativeDecrypt.ret # 0) =>
         /\ NativeDecrypt.out_plaintext = NullPtr
         /\ NativeDecrypt.out_plaintext_len = 0
         /\ last.out.kind = "throw"
    /\ (last.op = "decrypt" /\ last.out.kind = "throw") => last.out.value = <<>>

\* a decrypt failed on the checksum after unmasking two bytes, and threw
C16_Witness ==
    /\ last.op = "decrypt"
    /\ last.out.called
    /\ Len(CtArg) = KemProfile.length_ciphertext + 22
    /\ NativeDecrypt.ret = -1
    /\ last.out.diag = "Decrypt: Checksum verification failed"
    /\ last.out.kind = "throw"
    /\ last.out.value = <<>>

\* the KEM ciphertext length of the last call's level
KemLen == KemProfile.length_ciphertext

\* what the library's encapsulation made in the last encrypt call
Encapsulated == OQS_KEM_encaps(KemProfile, last.info[2].k, last.env.r)

\* C17: hybrid ciphertext layout.  A ciphertext that encrypt returns is the
\* KEM ciphertext, the 16-byte nonce, the 4-byte checksum of the plaintext
\* (least significant byte first) and the masked payload, in this order; the
\* payload is as long as the plaintext, the total length is the KEM
\* ciphertext length plus 20 plus the plaintext length, and Decrypt with the
\* matching key reads the plaintext back from the same offsets.
C17_Layout ==
    (last.op = "encrypt" /\ last.out.kind = "return") =>
        LET ct == last.out.value
            pt == last.info[3].b
        IN  /\ Len(ct) = KemLen + 20 + Len(pt)
            /\ Len(ct) >= KemLen + 20
            /\ SubSeq(ct, 1, KemLen) = Encapsulated.ct
            /\ SubSeq(ct, KemLen + 1, KemLen + 16) = Nonce
            /\ SubSeq(ct, KemLen + 17, KemLen + 20) = Checksum(pt)
            /\ pt = <<255, 0>> => SubSeq(ct, KemLen + 17, KemLen + 20) = <<223, 32, 0, 0>>
            /\ SubSeq(ct, KemLen + 21, Len(ct)) = XorMask(pt, Encapsulated.ss, Nonce)
            /\ last.info[2].k = held.pk =>
                 Decrypt(last.info[1].s, held.sk, ct, EnvOk).out_plaintext = Live(pt)

\* encrypt returned the ciphertext of the two bytes 255, 0
C17_Witness ==
    /\ last.op = "encrypt"
    /\ last.out.kind = "return"
    /\ last.info[3].b = <<255, 0>>
    /\ Len(last.out.value) = KemLen + 22
    /\ last.info[2].k = held.pk

\* the events that call a library primitive
Primitives ==
    {"OQS_KEM_new", "OQS_SIG_new", "OQS_KEM_keypair", "OQS_SIG_keypair",
     "OQS_KEM_encaps", "OQS_KEM_decaps", "OQS_SIG_sign", "OQS_SIG_verify"}

IsPrimitive(i) == last.out.ev[i][1] \in Primitives

\* C18: no internal retries.  In one call each primitive is called at most
\* once; after a primitive reported failure the call calls no primitive
\* again and reports the failure: an error, or for a signature the
\* primitive refuses the negative result of verify.
C18_NoRetries ==
    /\ \A i \in Events, j \in Events :
         (IsPrimitive(i) /\ last.out.ev[i][1] = last.out.ev[j][1]) => i = j
    /\ \A i \in Events :
         (IsPrimitive(i) /\ ~last.out.ev[i][3]) =>
            /\ \A j \in Events : j > i => ~IsPrimitive(j)
            /\ IF IsEv(i, "OQS_SIG_verify")
               THEN last.out.kind = "return" /\ last.out.value = FALSE
               ELSE last.out.kind = "throw" /\ last.out.ret = -1

\* OQS_SIG_sign failed once and sign threw
C18_Witness ==
    /\ last.op = "sign"
    /\ Did("OQS_SIG_sign", FALSE)
    /\ Cardinality({i \in Events : IsEv(i, "OQS_SIG_sign")}) = 1
    /\ last.out.kind = "throw"

\* the last call was generateKeypair of one of the two addons
IsKeypairCall == last.op \in {"kem.generateKeypair", "sig.generateKeypair"}

\* the key lengths of the profile the last generateKeypair call named
KeypairProfile ==
    IF last.op = "kem.generateKeypair"
    THEN [pk |-> KemProfile.length_public_key, sk |-> KemProfile.length_secret_key]
    ELSE [pk |-> SigProfile.length_public_key, sk |-> SigProfile.length_secret_key]

\* event i of the last call is the keypair primitive
IsKeypairEv(i) == IsEv(i, "OQS_KEM_keypair") \/ IsEv(i, "OQS_SIG_keypair")

\* C19: keypair all-or-nothing.  generateKeypair returns an object with
\* exactly publicKey and secretKey, both whole copies of the native buffers
\* of one pair with the profile's lengths, or it throws; whenever the
\* library filled the key buffers, both were copied while live if the call
\* returns, and both were freed when the call ends.
C19_KeypairAllOrNothing ==
    IsKeypairCall =>
        /\ last.out.kind \in {"return", "throw"}
        /\ last.out.kind = "return" =>
             /\ DOMAIN last.out.value = {"publicKey", "secretKey"}
             /\ last.out.value.publicKey = Key(KeypairProfile.pk, last.env.kid)
             /\ last.out.value.secretKey = Key(KeypairProfile.sk, last.env.kid)
             /\ \E i \in Events : IsKeypairEv(i) /\ last.out.ev[i][3]
             /\ \A o \in {"public_key", "secret_key"} :
                  \E i \in Events, j \in Events :
                     /\ i < j
                     /\ last.out.ev[i] = Ev("copy", o, TRUE)
                     /\ last.out.ev[j] = Ev("free", o, TRUE)
        /\ \A i \in Events :
             IsKeypairEv(i) =>
                \A o \in {"public_key", "secret_key"} :
                   \E j \in Events : j > i /\ last.out.ev[j] = Ev("free", o, TRUE)

\* the signature addon returned a level-3 pair: 1952 and 4032 bytes
C19_Witness ==
    /\ last.op = "sig.generateKeypair"
    /\ last.out.kind = "return"
    /\ last.out.value.publicKey.len = 1952
    /\ last.out.value.secretKey.len = 4032
    /\ last.out.value.publicKey.kid = last.out.value.secretKey.kid

\* the last call passed the count and type checks of an operation that
\* takes buffers
BufferCall ==
    \/ WellTyped("encrypt", 3) \/ WellTyped("decrypt", 3)
    \/ WellTyped("sign", 3) \/ WellTyped("verify", 4)

\* the last call passed an empty buffer
SomeBufferEmpty == \E i \in 2..Len(last.info) : last.info[i].len = 0

\* the last call threw one of the wrappers' empty-buffer errors
EmptyBufferError ==
    /\ last.out.kind = "throw"
    /\ last.out.etype = "Error"
    /\ last.out.msg \in {"Public key buffer is empty", "Secret key buffer is empty",
                         "Plaintext buffer is empty", "Ciphertext buffer is empty",
                         "Message buffer is empty", "Signature buffer is empty"}

\* the level token of the last call is one its family resolves
LevelKnown ==
    IF last.op \in KemOps THEN KyberLevelOk(last.info[1].s)
    ELSE DilithiumLevelOk(last.info[1].s)

\* C20: validation order.  A call that passes an empty buffer is refused
\* with the empty-buffer error whatever its level token is; a call with no
\* empty buffer and an unknown level token is refused with the level error;
\* in both cases the native operation is not invoked.
C20_ValidationOrder ==
    BufferCall =>
        /\ SomeBufferEmpty => (EmptyBufferError /\ ~last.out.called)
        /\ (~SomeBufferEmpty /\ ~LevelKnown) => (LevelError /\ ~last.out.called)

\* what call c returns when it runs alone, from start to end
Alone(c) ==
    IF c.fn = "Encrypt"
    THEN LET r == Encrypt(c.level, c.key, c.data, c.env)
         IN  [ret |-> r.ret, out |-> r.out_ciphertext, out_len |-> r.out_ciphertext_len,
              ev |-> r.ev, diag |-> r.diag]
    ELSE LET r == Sign(c.level, c.key, c.data, c.env)
         IN  [ret |-> r.ret, out |-> r.signature, out_len |-> r.signature_len,
              ev |-> r.ev, diag |-> r.diag]

\* what call c returned
Returned(c) ==
    [ret |-> c.ret, out |-> c.out, out_len |-> c.out_len, ev |-> c.ev, diag |-> c.diag]

\* C13: non-interference of concurrent calls.  Whatever the interleaving of
\* the steps of two native calls, a call that has returned has the result,
\* the output bytes, the diagnostic and the sequence of allocations and
\* releases of buffers and handles that the same call has when it runs
\* alone.
C13_NonInterference ==
    \A p \in Procs :
        conc.proc[p].pc = "done" => Returned(conc.proc[p]) = Alone(conc.proc[p])

\* two encryptions of different plaintexts under different keys both
\* returned a ciphertext after steps of one ran in the middle of the other
C13_Witness ==
    /\ conc.overlap
    /\ \A p \in Procs :
         /\ At(p, "Encrypt", "done")
         /\ conc.proc[p].ret = 0
         /\ conc.proc[p].out.st = "live"
    /\ conc.proc[1].data # conc.proc[2].data
    /\ conc.proc[1].out # conc.proc[2].out

\* carry into byte i of 33 * c + b, in base 256
RECURSIVE Carry33(_, _, _)
Carry33(c, b, i) ==
    IF i = 1 THEN b ELSE ((33 * c[i - 1]) + Carry33(c, b, i - 1)) \div 256

\* (c * 33 + b) mod 2^32 by long multiplication on the four bytes of c
Times33Plus(c, b) == [i \in 1..4 |-> ((33 * c[i]) + Carry33(c, b, i)) % 256]

\* the first n bytes folded in order from 0 by c := (c * 33 + b) mod 2^32
RECURSIVE Folded(_, _)
Folded(data, n) ==
    IF n = 0 THEN Zero32
    ELSE CHOOSE r \in {Bytes4(Times33Plus(c, data[n])) :
                          c \in {Folded(data, n - 1)}} : TRUE

\* the last run was an Encrypt that returned a ciphertext
EncryptRan == calc.fn = "Encrypt" /\ calc.done /\ calc.ret = 0

\* the library's handle for the level of the last Encrypt run
RunKem == OQS_KEM_new(select_kyber_alg(calc.level))

\* the secret key that matches the public key of the last Encrypt run
RunSecretKey == Key(KyberExpectedSecKeySize(calc.level), calc.key.kid)

\* C21: checksum arithmetic.  The checksum loop of Encrypt and Decrypt
\* gives 0 for no bytes and otherwise folds each byte b in order by
\* checksum := (checksum * 33 + b) mod 2^32, also where the 32-bit value
\* wraps: six bytes 255 give 311860155 * 33 + 255 mod 2^32 = 1701450778.
\* The checksum Encrypt stores is this fold of the plaintext, and Decrypt
\* with the matching key recomputes the same value and returns the
\* plaintext.
C21_ChecksumArithmetic ==
    /\ EncryptRan =>
         /\ SubSeq(calc.out, RunKem.length_ciphertext + 17,
                   RunKem.length_ciphertext + 20) = Folded(calc.data, Len(calc.data))
         /\ Decrypt(calc.level, RunSecretKey, calc.out, EnvOk).out_plaintext
              = Live(calc.data)
    /\ (calc.fn = "checksum" /\ calc.done) =>
        /\ calc.out = Folded(calc.data, Len(calc.data))
        /\ calc.data = <<>> => calc.out = <<0, 0, 0, 0>>
        /\ calc.data = <<255, 0>> => calc.out = <<223, 32, 0, 0>>
        /\ calc.data = <<255, 255, 255, 255, 255, 255>> =>
             calc.out = <<26, 20, 106, 101>>
        /\ Len(calc.data) >= 1 =>
             calc.out = Times33Plus(Checksum(SubSeq(calc.data, 1, Len(calc.data) - 1)),
                                    calc.data[Len(calc.data)])

\* the checksum of seven bytes 255, which wrapped twice on the way
C21_Witness ==
    /\ calc.fn = "checksum"
    /\ calc.done
    /\ calc.data = <<255, 255, 255, 255, 255, 255, 255>>
    /\ calc.out = <<89, 152, 172, 18>>

RECURSIVE Gcd(_, _)
Gcd(a, b) == IF b = 0 THEN a ELSE Gcd(b, a % b)

Lcm(a, b) == (a * b) \div Gcd(a, b)

\* the distance after which the mask of the last Encrypt run repeats
Period == Lcm(RunKem.length_shared_secret, Len(Nonce))

\* the masked payload of the ciphertext of the last Encrypt run
RunPayload == SubSeq(calc.out, RunKem.length_ciphertext + 21, Len(calc.out))

\* C23: keystream reuse inside one ciphertext.  The mask Encrypt applies
\* repeats after lcm(S, 16) = 32 bytes: in every ciphertext, under every key
\* and every encapsulation, two payload bytes that far apart differ by
\* exactly what the two plaintext bytes differ by, and the payload is as
\* long as the plaintext.
C23_KeystreamReuse ==
    EncryptRan =>
        /\ Period = 32
        /\ Len(RunPayload) = Len(calc.data)
        /\ \A j \in 1..(Len(calc.data) - Period) :
             /\ Xor(RunPayload[j], RunPayload[j + Period])
                  = Xor(calc.data[j], calc.data[j + Period])
             /\ Xor(RunPayload[j], calc.data[j])
                  = Xor(RunPayload[j + Period], calc.data[j + Period])

\* a 34-byte plaintext whose bytes 1 and 33 differ was encrypted, and the
\* payload bytes 1 and 33 differ by the same bits
C23_Witness ==
    /\ EncryptRan
    /\ Len(calc.data) = MaskLen
    /\ calc.data[1] # calc.data[1 + Period]
    /\ RunPayload[1] # RunPayload[1 + Period]
    /\ Xor(RunPayload[2], RunPayload[2 + Period]) = Xor(calc.data[2], calc.data[2 + Period])

\* the last run was a sign that returned a signature
SignRan == calc.fn = "sign" /\ calc.done /\ calc.ret = 0

\* what the native Sign of the last sign run hands to the wrapper
RunSign == Sign(calc.level, calc.key, calc.data, calc.env)

\* the capacity of the signature buffer of the last sign run
RunCapacity == OQS_SIG_new(select_dilithium_alg(calc.level)).length_signature

\* C22: signature length.  The signature sign returns has the length the
\* signer reported writing and is the first that many bytes of the native
\* buffer, which are the bytes the signer wrote; when the signer wrote less
\* than the allocated capacity the result is shorter than the capacity and
\* holds none of the bytes of the buffer that were never written.
C22_SignatureLength ==
    SignRan =>
        /\ Len(calc.out) = RunSign.signature_len
        /\ Len(calc.out) = RunCapacity - calc.env.short
        /\ Len(RunSign.signature.val) = RunCapacity
        /\ calc.out = SubSeq(RunSign.signature.val, 1, RunSign.signature_len)
        /\ calc.out = SignWritten(OQS_SIG_new(select_dilithium_alg(calc.level)),
                                  calc.data, calc.key, calc.env.short)
        /\ calc.env.short > 0 => Len(calc.out) < RunCapacity
        /\ \A i \in 1..Len(calc.out) : calc.out[i] \in 0..255

\* the signer wrote two bytes fewer than the 2420 of level 2 and sign
\* returned 2418 bytes
C22_Witness ==
    /\ SignRan
    /\ calc.level = "2"
    /\ calc.env.short = 2
    /\ Len(calc.out) = 2418
    /\ Len(RunSign.signature.val) = 2420

\* C24: non-empty plaintext.  Every decrypt that returns, returns at least
\* one byte; a ciphertext with an empty masked payload is refused.
C24_NonEmptyPlaintext ==
    /\ (last.op = "decrypt" /\ last.out.kind = "return") => Len(last.out.value) >= 1
    /\ (WellTyped("decrypt", 3) /\ last.out.called
          /\ Len(CtArg) = KemLen + 20) => last.out.kind = "throw"

\* the memcpy's out of the ciphertext in the last decrypt call
Reads == NativeDecrypt.reads

\* C25: Decrypt stays inside its input.  Every memcpy out of the ciphertext
\* starts at or after the beginning and ends at or before the end of the
\* ciphertext passed; the payload is read only from a ciphertext of at
\* least the minimum length, so its length ciphertext_len - kemLen - 20 is
\* not negative, and a plaintext returned is as long as that payload.
C25_DecryptInBounds ==
    (last.op = "decrypt" /\ last.out.called) =>
        /\ \A i \in 1..Len(Reads) :
             /\ Reads[i][1] >= 0
             /\ Reads[i][2] >= 0
             /\ Reads[i][1] + Reads[i][2] <= Len(CtArg)
        /\ Len(Reads) > 1 => Len(CtArg) >= KemLen + 20
        /\ Len(Reads) > 3 =>
             Reads[4] = <<KemLen + 20, Len(CtArg) - KemLen - 20>>
        /\ last.out.kind = "return" =>
             /\ Len(Reads) = 4
             /\ NativeDecrypt.out_plaintext_len = Reads[4][2]
             /\ Len(last.out.value) = Len(CtArg) - KemLen - 20

\* a decrypt of a ciphertext with a two-byte payload returned two bytes
\* after reading the ciphertext to its last byte
C25_Witness ==
    /\ last.op = "decrypt"
    /\ last.out.kind = "return"
    /\ Len(CtArg) = KemLen + 22
    /\ Reads[4] = <<KemLen + 20, 2>>
    /\ Len(last.out.value) = 2

====
